---- MODULE Spec2Model ----
(***************************************************************************)
(* A model of the Spond MCP service layer (server.py): the TTL cache, the  *)
(* fuzzy group matcher, the family resolution engine and the service       *)
(* facade that composes them.                                              *)
(*                                                                         *)
(* Representation.                                                         *)
(*   - A name (group name, first name, configured name) is a sequence of   *)
(*     one-character strings, so that lower-casing and substring tests are *)
(*     computed and not assumed.                                           *)
(*   - An identifier (group id, member id, cache key) is a TLA+ string.    *)
(*   - A Python Optional is a sequence of length 0 (None) or 1 (a value).  *)
(*   - A Python dict is the sequence of its (key, value) pairs in          *)
(*     insertion order, keys unique.                                       *)
(***************************************************************************)
EXTENDS Integers, Sequences, FiniteSets, TLC

VARIABLES
    now,             \* time.monotonic(), in seconds
    ticks,           \* number of clock advances so far (bounds the model)
    kids,            \* SpondService._kids
    cache,           \* SpondService._cache : key -> [data, ts]
    family_members,  \* SpondService._family_members : None or dict
    group_map,       \* SpondService._group_map : None or dict
    remoteGroups,    \* what the Remote Source answers to get_groups now
    remoteEvents,    \* the Remote Source's events: group id -> list, "*" -> all
    last,            \* the most recent facade call and its outcome
    tasks,           \* the facade calls in flight, suspended on an await
    arg,             \* inputs of a pure-function call
    res,             \* result of the last pure-function call
    client           \* SpondService._client : its clientsession attribute

vars == <<now, ticks, kids, cache, family_members, group_map, remoteGroups,
          remoteEvents, last, tasks, arg, res, client>>

-----------------------------------------------------------------------------
(* Optionals and dicts                                                     *)

None == <<>>

Some(x) == <<x>>

IsNone(o) == o = <<>>

Val(o) == o[1]

DictKeys(d) == {d[i][1] : i \in 1..Len(d)}

DictHas(d, k) == \E i \in 1..Len(d) : d[i][1] = k

DictGet(d, k) == d[CHOOSE i \in 1..Len(d) : d[i][1] = k][2]

\* d[k] = v : an existing key keeps its position, a new key is appended
DictSet(d, k, v) ==
    IF DictHas(d, k)
    THEN [i \in 1..Len(d) |-> IF d[i][1] = k THEN <<k, v>> ELSE d[i]]
    ELSE Append(d, <<k, v>>)

-----------------------------------------------------------------------------
(* Strings                                                                 *)

Chars == {"A", "a", "b"}

\* str.lower() on one character
LowerChar(c) == IF c = "A" THEN "a" ELSE c

\* str.lower()
lower(s) == [i \in 1..Len(s) |-> LowerChar(s[i])]

\* Python's  a in b  on strings: a occurs in b as a contiguous substring
StrIn(a, b) ==
    \E off \in 0..(Len(b) - Len(a)) : SubSeq(b, off + 1, off + Len(a)) = a

-----------------------------------------------------------------------------
(* Fuzzy matcher                                                           *)

\* the condition of line 138 with only its first half
configured_hit_one_way(configured, name_lower) ==
    StrIn(lower(configured), name_lower)

\* server.py line 138
configured_hit(configured, name_lower) ==
    \/ StrIn(lower(configured), name_lower)
    \/ StrIn(name_lower, lower(configured))

RECURSIVE fuzzy_scan(_, _, _)
\* the for loop of fuzzy_match_group from index i on
fuzzy_scan(name_lower, configured_names, i) ==
    IF i > Len(configured_names) THEN FALSE
    ELSE IF configured_hit(configured_names[i], name_lower) THEN TRUE
    ELSE fuzzy_scan(name_lower, configured_names, i + 1)

fuzzy_match_group(group_name, configured_names) ==
    fuzzy_scan(lower(group_name), configured_names, 1)

\* the condition of line 85 with only its first half
group_hit_one_way(name_lower, g) ==
    StrIn(name_lower, lower(g.name))

\* server.py line 85
group_hit(name_lower, g) ==
    \/ StrIn(name_lower, lower(g.name))
    \/ StrIn(lower(g.name), name_lower)

RECURSIVE find_group_scan_fallback(_, _, _)
\* the loop of find_group_id answering with the last group when none hits
find_group_scan_fallback(name_lower, groups, i) ==
    IF i > Len(groups) THEN None
    ELSE IF group_hit(name_lower, groups[i]) \/ i = Len(groups)
    THEN Some(groups[i].id)
    ELSE find_group_scan_fallback(name_lower, groups, i + 1)

RECURSIVE find_group_scan(_, _, _)
\* the for loop of find_group_id from index i on
find_group_scan(name_lower, groups, i) ==
    IF i > Len(groups) THEN None
    ELSE IF group_hit(name_lower, groups[i]) THEN Some(groups[i].id)
    ELSE find_group_scan(name_lower, groups, i + 1)

find_group_id(group_name, groups) ==
    find_group_scan(lower(group_name), groups, 1)

-----------------------------------------------------------------------------
(* Resolution engine: the body of resolve_family_members, lines 65-77      *)

\* kid.get("groups", [])
kid_groups_of(kid) == IF IsNone(kid.groups) THEN <<>> ELSE Val(kid.groups)

\* group.get("members", [])
members_of(group) == IF IsNone(group.members) THEN <<>> ELSE Val(group.members)

\* member.get("firstName", "")
first_name_of(member) ==
    IF IsNone(member.firstName) THEN <<>> ELSE Val(member.firstName)

\* line 75
first_name_equals(member, kid_name) ==
    lower(first_name_of(member)) = lower(kid_name)

RECURSIVE scan_members_no_break(_, _, _, _)
\* the member loop of lines 74-77 without its break
scan_members_no_break(family, members, kid_name, i) ==
    IF i > Len(members) THEN family
    ELSE scan_members_no_break(
             IF first_name_equals(members[i], kid_name)
             THEN DictSet(family, members[i].id, kid_name) ELSE family,
             members, kid_name, i + 1)

RECURSIVE scan_members_skip_admins(_, _, _, _)
\* the member loop of lines 74-77 passing over members tagged admin
scan_members_skip_admins(family, members, kid_name, i) ==
    IF i > Len(members) THEN family
    ELSE IF /\ first_name_equals(members[i], kid_name)
            /\ "admin" \notin members[i].roles
         THEN DictSet(family, members[i].id, kid_name)
         ELSE scan_members_skip_admins(family, members, kid_name, i + 1)

RECURSIVE scan_members(_, _, _, _)
\* lines 74-77: record the first member whose first name equals, then break
scan_members(family, members, kid_name, i) ==
    IF i > Len(members) THEN family
    ELSE IF first_name_equals(members[i], kid_name)
         THEN DictSet(family, members[i].id, kid_name)
         ELSE scan_members(family, members, kid_name, i + 1)

\* lines 72-73 skipped: every group is scanned
scan_group_unfiltered(family, group, kid) ==
    scan_members(family, members_of(group), kid.name, 1)

\* lines 72-77 for one group
scan_group(family, group, kid) ==
    IF ~fuzzy_match_group(group.name, kid_groups_of(kid)) THEN family
    ELSE scan_members(family, members_of(group), kid.name, 1)

RECURSIVE scan_groups(_, _, _, _)
\* the group loop of line 71 from index j on
scan_groups(family, groups, kid, j) ==
    IF j > Len(groups) THEN family
    ELSE scan_groups(scan_group(family, groups[j], kid), groups, kid, j + 1)

RECURSIVE scan_kids(_, _, _, _)
\* the kid loop of line 67 from index k on
scan_kids(family, kidlist, groups, k) ==
    IF k > Len(kidlist) THEN family
    ELSE scan_kids(scan_groups(family, groups, kidlist[k], 1),
                   kidlist, groups, k + 1)

\* lines 65-77
build_family(kidlist, groups) == scan_kids(<<>>, kidlist, groups, 1)

-----------------------------------------------------------------------------
(* Cache: lines 18-42                                                      *)

GROUPS_TTL == 3600

EVENTS_TTL == 300

\* _get_cached with <= in place of <
get_cached_inclusive(c, key, ttl, t) ==
    IF key \in DOMAIN c /\ t - c[key].ts <= ttl THEN Some(c[key].data) ELSE None

\* _get_cached: Some(data) while  now - ts < ttl , None otherwise
get_cached(c, key, ttl, t) ==
    IF key \in DOMAIN c /\ t - c[key].ts < ttl THEN Some(c[key].data) ELSE None

\* _set_cached that keeps the timestamp of an entry it overwrites
set_cached_keep_ts(c, key, data, t) ==
    [k \in DOMAIN c \cup {key} |->
        IF k = key
        THEN [data |-> data, ts |-> IF key \in DOMAIN c THEN c[key].ts ELSE t]
        ELSE c[k]]

\* _set_cached: unconditional overwrite stamped with the current time
set_cached(c, key, data, t) ==
    [k \in DOMAIN c \cup {key} |->
        IF k = key THEN [data |-> data, ts |-> t] ELSE c[k]]

\* the empty dict of line 25 and of _cache.clear()
EmptyCache == [k \in {} |-> None]

-----------------------------------------------------------------------------
(* Service facade, functional core.  svc is the facade's own state,        *)
(* [kids, cache, family_members, group_map]; t is the monotonic time at    *)
(* the start of the call; env holds what the Remote Source does: ok        *)
(* (answers or raises), lat (seconds the awaited call takes), groups and   *)
(* events (its current content).  A call yields                            *)
(*   [svc, ret, remote, raised, t] :                                       *)
(* the state after, the value returned (Some(v), or None when the call     *)
(* raised or returns nothing), the Remote Source invocations it made in    *)
(* order, whether it raised, and the time at its end.                      *)

Returned(svc, ret, remote, t) ==
    [svc |-> svc, ret |-> Some(ret), remote |-> remote, raised |-> FALSE,
     t |-> t]

Raised(svc, remote, t) ==
    [svc |-> svc, ret |-> None, remote |-> remote, raised |-> TRUE, t |-> t]

\* truthiness of an Optional[str]: None and "" are falsy
Truthy(o) == ~IsNone(o) /\ Val(o) # ""

\* the Remote Source's answer to get_events(min_start, max_end, group_id),
\* after conftest.mock_get_events: the events of a known group, or all of
\* them.  req and at record which request produced the answer and when.
remote_get_events(env, days, group_id, t) ==
    [events |-> IF Truthy(group_id) /\ Val(group_id) \in DOMAIN env.events
                THEN env.events[Val(group_id)] ELSE env.events["*"],
     req    |-> <<days, group_id>>,
     at     |-> t]

\* get_groups that always fetches
get_groups_uncached(svc, t, env) ==
    IF ~env.ok THEN Raised(svc, <<[op |-> "get_groups"]>>, t + env.lat)
    ELSE Returned([svc EXCEPT !.cache = set_cached(@, "groups", env.groups,
                                                    t + env.lat)],
                  env.groups, <<[op |-> "get_groups"]>>, t + env.lat)

\* get_groups that drops both derived maps when it refetches
get_groups_invalidating(svc, t, env) ==
    LET cached == get_cached(svc.cache, "groups", GROUPS_TTL, t) IN
    IF ~IsNone(cached) THEN Returned(svc, Val(cached), <<>>, t)
    ELSE IF ~env.ok THEN Raised(svc, <<[op |-> "get_groups"]>>, t + env.lat)
    ELSE Returned([svc EXCEPT !.cache = set_cached(@, "groups", env.groups,
                                                    t + env.lat),
                              !.family_members = None,
                              !.group_map = None],
                  env.groups, <<[op |-> "get_groups"]>>, t + env.lat)

\* get_groups whose cache read deletes the entry it finds expired
get_groups_evicting(svc, t, env) ==
    LET cached  == get_cached(svc.cache, "groups", GROUPS_TTL, t)
        evicted == [svc EXCEPT !.cache =
                       [k \in DOMAIN @ \ {"groups"} |-> @[k]]]
    IN  IF ~IsNone(cached) THEN Returned(svc, Val(cached), <<>>, t)
        ELSE IF ~env.ok
        THEN Raised(evicted, <<[op |-> "get_groups"]>>, t + env.lat)
        ELSE Returned([svc EXCEPT !.cache = set_cached(@, "groups", env.groups,
                                                        t + env.lat)],
                      env.groups, <<[op |-> "get_groups"]>>, t + env.lat)

\* lines 44-50
get_groups(svc, t, env) ==
    LET cached == get_cached(svc.cache, "groups", GROUPS_TTL, t) IN
    IF ~IsNone(cached) THEN Returned(svc, Val(cached), <<>>, t)
    ELSE IF ~env.ok THEN Raised(svc, <<[op |-> "get_groups"]>>, t + env.lat)
    ELSE Returned([svc EXCEPT !.cache = set_cached(@, "groups", env.groups,
                                                    t + env.lat)],
                  env.groups, <<[op |-> "get_groups"]>>, t + env.lat)

\* line 98:  f"events:{days}:{group_id or 'all'}"
cache_key(days, group_id) ==
    "events:" \o ToString(days) \o ":"
              \o (IF Truthy(group_id) THEN Val(group_id) ELSE "all")

\* get_events that drops the entry of its key when the fetch fails
get_events_evicting(svc, days, group_id, t, env) ==
    LET key    == cache_key(days, group_id)
        cached == get_cached(svc.cache, key, EVENTS_TTL, t)
        call   == [op |-> "get_events", days |-> days, group_id |-> group_id]
    IN  IF ~IsNone(cached) THEN Returned(svc, Val(cached), <<>>, t)
        ELSE IF ~env.ok
        THEN Raised([svc EXCEPT !.cache = [k \in DOMAIN @ \ {key} |-> @[k]]],
                    <<call>>, t + env.lat)
        ELSE LET events == remote_get_events(env, days, group_id, t + env.lat)
             IN  Returned([svc EXCEPT !.cache = set_cached(@, key, events,
                                                           t + env.lat)],
                          events, <<call>>, t + env.lat)

\* lines 95-110
get_events(svc, days, group_id, t, env) ==
    LET key    == cache_key(days, group_id)
        cached == get_cached(svc.cache, key, EVENTS_TTL, t)
        call   == [op |-> "get_events", days |-> days, group_id |-> group_id]
    IN  IF ~IsNone(cached) THEN Returned(svc, Val(cached), <<>>, t)
        ELSE IF ~env.ok THEN Raised(svc, <<call>>, t + env.lat)
        ELSE LET events == remote_get_events(env, days, group_id, t + env.lat)
             IN  Returned([svc EXCEPT !.cache = set_cached(@, key, events,
                                                           t + env.lat)],
                          events, <<call>>, t + env.lat)

\* resolve_family_members that rebuilds on every call
resolve_family_members_rebuild(svc, t, env) ==
    LET g == get_groups(svc, t, env) IN
    IF g.raised THEN g
    ELSE LET family == build_family(svc.kids, Val(g.ret))
         IN  Returned([g.svc EXCEPT !.family_members = Some(family)],
                      family, g.remote, g.t)

\* resolve_family_members that tests the map for truth, so that an empty
\* map counts as unbuilt
resolve_family_members_truthy(svc, t, env) ==
    IF ~IsNone(svc.family_members) /\ Val(svc.family_members) # <<>>
    THEN Returned(svc, Val(svc.family_members), <<>>, t)
    ELSE LET g == get_groups(svc, t, env) IN
         IF g.raised THEN g
         ELSE LET family == build_family(svc.kids, Val(g.ret))
              IN  Returned([g.svc EXCEPT !.family_members = Some(family)],
                           family, g.remote, g.t)

\* resolve_family_members that initialises the stored map before it
\* awaits the Group list, so that a failed fetch leaves an empty map behind
resolve_family_members_early_store(svc, t, env) ==
    IF ~IsNone(svc.family_members)
    THEN Returned(svc, Val(svc.family_members), <<>>, t)
    ELSE LET g == get_groups(svc, t, env) IN
         IF g.raised
         THEN Raised([g.svc EXCEPT !.family_members = Some(<<>>)],
                     g.remote, g.t)
         ELSE LET family == build_family(svc.kids, Val(g.ret))
              IN  Returned([g.svc EXCEPT !.family_members = Some(family)],
                           family, g.remote, g.t)

\* lines 59-80
resolve_family_members(svc, t, env) ==
    IF ~IsNone(svc.family_members)
    THEN Returned(svc, Val(svc.family_members), <<>>, t)
    ELSE LET g == get_groups(svc, t, env) IN
         IF g.raised THEN g
         ELSE LET family == build_family(svc.kids, Val(g.ret))
              IN  Returned([g.svc EXCEPT !.family_members = Some(family)],
                           family, g.remote, g.t)

RECURSIVE find_member_scan_last(_, _, _)
\* the loop of lines 125-128 returning the last entry that matches
find_member_scan_last(family, kid_name, i) ==
    IF i > Len(family) THEN None
    ELSE LET later == find_member_scan_last(family, kid_name, i + 1)
         IN  IF ~IsNone(later) THEN later
             ELSE IF lower(family[i][2]) = lower(kid_name)
                  THEN Some(family[i][1]) ELSE None

RECURSIVE find_member_scan(_, _, _)
\* the loop of lines 125-128 over family.items() from index i on
find_member_scan(family, kid_name, i) ==
    IF i > Len(family) THEN None
    ELSE IF lower(family[i][2]) = lower(kid_name) THEN Some(family[i][1])
    ELSE find_member_scan(family, kid_name, i + 1)

\* lines 123-128
find_member_id(svc, kid_name, t, env) ==
    LET r == resolve_family_members(svc, t, env) IN
    IF r.raised THEN r
    ELSE Returned(r.svc, find_member_scan(Val(r.ret), kid_name, 1),
                  r.remote, r.t)

\* clear_cache without line 41
clear_cache_keep_family(svc, t) ==
    [svc |-> [svc EXCEPT !.cache = EmptyCache, !.group_map = None],
     ret |-> None, remote |-> <<>>, raised |-> FALSE, t |-> t]

\* lines 39-42
clear_cache(svc, t) ==
    [svc |-> [svc EXCEPT !.cache = EmptyCache,
                         !.family_members = None,
                         !.group_map = None],
     ret |-> None, remote |-> <<>>, raised |-> FALSE, t |-> t]

\* hasattr(self._client, "clientsession") and self._client.clientsession
has_session(cl) == ~IsNone(cl) /\ ~IsNone(Val(cl))

\* lines 130-132; the session object stays in the attribute after its
\* close() was awaited
close(svc, cl, t) ==
    IF has_session(cl)
    THEN [svc |-> svc, client |-> Some(Some(Val(Val(cl)) + 1)), ret |-> None,
          remote |-> <<[op |-> "clientsession.close"]>>, raised |-> FALSE,
          t |-> t]
    ELSE [svc |-> svc, client |-> cl, ret |-> None, remote |-> <<>>,
          raised |-> FALSE, t |-> t]

RECURSIVE group_index(_, _, _)
\* the dict comprehension of line 56 from index i on
group_index(groups, map, i) ==
    IF i > Len(groups) THEN map
    ELSE group_index(groups, DictSet(map, groups[i].id, groups[i].name), i + 1)

\* get_group_map that derives the index from the served list on every call
get_group_map_rebuilding(svc, t, env) ==
    LET g == get_groups(svc, t, env) IN
    IF g.raised THEN g
    ELSE LET map == group_index(Val(g.ret), <<>>, 1)
         IN  Returned([g.svc EXCEPT !.group_map = Some(map)],
                      map, g.remote, g.t)

\* lines 52-57
get_group_map(svc, t, env) ==
    IF ~IsNone(svc.group_map)
    THEN Returned(svc, Val(svc.group_map), <<>>, t)
    ELSE LET g == get_groups(svc, t, env) IN
         IF g.raised THEN g
         ELSE LET map == group_index(Val(g.ret), <<>>, 1)
              IN  Returned([g.svc EXCEPT !.group_map = Some(map)],
                           map, g.remote, g.t)

RECURSIVE kid_group_scan(_, _, _)
\* the loop of lines 90-93 from index k on
kid_group_scan(kidlist, kid_name, k) ==
    IF k > Len(kidlist) THEN <<>>
    ELSE IF lower(kidlist[k].name) = lower(kid_name)
         THEN kid_groups_of(kidlist[k])
         ELSE kid_group_scan(kidlist, kid_name, k + 1)

\* lines 89-93
get_kid_group_names(svc, kid_name) == kid_group_scan(svc.kids, kid_name, 1)

\* the Remote Source's answer to get_event(event_id): the event as it is
\* at time t
remote_get_event(env, event_id, t) == [id |-> event_id, at |-> t]

\* get_event that keeps what it fetched in the cache
get_event_cached(svc, event_id, t, env) ==
    LET key    == "event:" \o event_id
        cached == get_cached(svc.cache, key, EVENTS_TTL, t)
        call   == [op |-> "get_event", event_id |-> event_id]
    IN  IF ~IsNone(cached) THEN Returned(svc, Val(cached), <<>>, t)
        ELSE IF ~env.ok THEN Raised(svc, <<call>>, t + env.lat)
        ELSE LET event == remote_get_event(env, event_id, t + env.lat)
             IN  Returned([svc EXCEPT !.cache = set_cached(@, key, event,
                                                           t + env.lat)],
                          event, <<call>>, t + env.lat)

\* lines 112-113
get_event(svc, event_id, t, env) ==
    LET call == [op |-> "get_event", event_id |-> event_id] IN
    IF ~env.ok THEN Raised(svc, <<call>>, t + env.lat)
    ELSE Returned(svc, remote_get_event(env, event_id, t + env.lat),
                  <<call>>, t + env.lat)

\* lines 118-120 with the decline message added whenever there is one
response_payload_any_message(accept, decline_message) ==
    LET payload == IF accept THEN << <<"accepted", "true">> >>
                             ELSE << <<"accepted", "false">> >>
    IN  IF decline_message # ""
        THEN DictSet(payload, "declineMessage", decline_message)
        ELSE payload

\* lines 118-120
response_payload(accept, decline_message) ==
    LET payload == IF accept THEN << <<"accepted", "true">> >>
                             ELSE << <<"accepted", "false">> >>
    IN  IF ~accept /\ decline_message # ""
        THEN DictSet(payload, "declineMessage", decline_message)
        ELSE payload

\* change_response that drops the cached event lists after submitting
change_response_invalidating(svc, event_id, member_id, accept, decline_message, t, env) ==
    LET call == [op |-> "change_response", event_id |-> event_id,
                 member_id |-> member_id,
                 payload |-> response_payload(accept, decline_message)]
    IN  IF ~env.ok THEN Raised(svc, <<call>>, t + env.lat)
        ELSE Returned([svc EXCEPT !.cache =
                          [k \in DOMAIN @ \cap {"groups"} |-> @[k]]],
                      None, <<call>>, t + env.lat)

\* lines 115-121
change_response(svc, event_id, member_id, accept, decline_message, t, env) ==
    LET call == [op |-> "change_response", event_id |-> event_id,
                 member_id |-> member_id,
                 payload |-> response_payload(accept, decline_message)]
    IN  IF ~env.ok THEN Raised(svc, <<call>>, t + env.lat)
        ELSE Returned(svc, None, <<call>>, t + env.lat)

-----------------------------------------------------------------------------
(* Tool handlers, functional core.  A handler takes the facade state, its  *)
(* arguments, the time and envs = [groups, events, submit], the Remote     *)
(* Source's behaviour for each of its operations, and yields               *)
(* [svc, ret, remote, raised, t] like a facade call.  The text a handler   *)
(* returns is the record of its parts: kind names the message, and the     *)
(* other fields are the values formatted into it, in the order of its      *)
(* lines.                                                                  *)

\* e.get("id", "")
event_id_of(e) == IF IsNone(e.id) THEN "" ELSE Val(e.id)

\* e.get("startTimestamp", ""): timestamps are positive numbers ordered as
\* the ISO texts are, and the empty text sorts before all of them
start_of(e) == IF IsNone(e.startTimestamp) THEN 0 ELSE Val(e.startTimestamp)

RECURSIVE insert_by_start(_, _, _)
\* place e behind the last element of sorted whose start is not greater
insert_by_start(sorted, e, i) ==
    IF i = 0 \/ start_of(sorted[i]) <= start_of(e)
    THEN SubSeq(sorted, 1, i) \o <<e>> \o SubSeq(sorted, i + 1, Len(sorted))
    ELSE insert_by_start(sorted, e, i - 1)

RECURSIVE sort_from(_, _, _)
sort_from(sorted, events, i) ==
    IF i > Len(events) THEN sorted
    ELSE sort_from(insert_by_start(sorted, events[i], Len(sorted)),
                   events, i + 1)

\* sorted(events, key=lambda e: e.get("startTimestamp", "")), which is stable
sorted_by_start(events) == sort_from(<<>>, events, 1)

\* lines 389-392 without the test of line 390
add_always(acc, e) ==
    [acc EXCEPT !.seen_ids = @ \cup {event_id_of(e)},
                !.all_events = Append(@, e)]

\* lines 389-392 for one event
add_if_unseen(acc, e) ==
    IF event_id_of(e) \in acc.seen_ids THEN acc
    ELSE [acc EXCEPT !.seen_ids = @ \cup {event_id_of(e)},
                     !.all_events = Append(@, e)]

RECURSIVE add_events(_, _, _)
\* the loop of line 388 from index i on
add_events(acc, events, i) ==
    IF i > Len(events) THEN acc
    ELSE add_events(add_if_unseen(acc, events[i]), events, i + 1)

\* the state of the aggregation before the loop of line 384: the facade
\* call made so far (get_groups), the accumulators of lines 382-383, and
\* scanned, the configured names met so far with the id each resolved to
\* and the events fetched for it
AggregationStart(g) ==
    [svc |-> g.svc, t |-> g.t, remote |-> g.remote, raised |-> FALSE,
     all_events |-> <<>>, seen_ids |-> {}, scanned |-> <<>>]

\* lines 385-392 with an unresolvable name answered by a fetch of the
\* events of all groups
kid_group_step_fetch_all(acc, days, gname, groups, env) ==
    LET gid == find_group_id(gname, groups)
        r   == get_events(acc.svc, days,
                          IF Truthy(gid) THEN gid ELSE None, acc.t, env)
    IN  IF r.raised
        THEN [acc EXCEPT !.svc = r.svc, !.t = r.t, !.raised = TRUE,
                         !.remote = @ \o r.remote]
        ELSE [add_events(acc, Val(r.ret).events, 1)
                 EXCEPT !.svc = r.svc, !.t = r.t,
                        !.remote = @ \o r.remote,
                        !.scanned = Append(@, [name |-> gname, gid |-> gid,
                                               events |-> Some(Val(r.ret).events)])]

\* lines 385-392 for one configured group name
kid_group_step(acc, days, gname, groups, env) ==
    LET gid == find_group_id(gname, groups) IN
    IF ~Truthy(gid)
    THEN [acc EXCEPT !.scanned = Append(@, [name |-> gname, gid |-> gid,
                                            events |-> None])]
    ELSE LET r == get_events(acc.svc, days, gid, acc.t, env) IN
         IF r.raised
         THEN [acc EXCEPT !.svc = r.svc, !.t = r.t, !.raised = TRUE,
                          !.remote = @ \o r.remote]
         ELSE [add_events(acc, Val(r.ret).events, 1)
                  EXCEPT !.svc = r.svc, !.t = r.t,
                         !.remote = @ \o r.remote,
                         !.scanned = Append(@, [name |-> gname, gid |-> gid,
                                                events |-> Some(Val(r.ret).events)])]

RECURSIVE kid_groups_loop(_, _, _, _, _, _)
\* the loop of line 384 from index i on; an exception ends it
kid_groups_loop(acc, days, kid_group_names, groups, env, i) ==
    IF acc.raised \/ i > Len(kid_group_names) THEN acc
    ELSE kid_groups_loop(
             kid_group_step(acc, days, kid_group_names[i], groups, env),
             days, kid_group_names, groups, env, i + 1)

\* lines 398-415: the empty-result message, or the header and one summary
\* per event in start order with the family's answers; scanned is the
\* trace of the aggregation that produced events, empty when there was none
upcoming_result(svc, events, scanned, days, group_name, kid_name, remote, t, envs) ==
    IF events = <<>>
    THEN Returned(svc, [kind |-> "no_events", days |-> days,
                        group_name |-> group_name, kid_name |-> kid_name,
                        scanned |-> scanned], remote, t)
    ELSE LET f == resolve_family_members(svc, t, envs.groups) IN
         IF f.raised THEN Raised(f.svc, remote \o f.remote, f.t)
         ELSE Returned(f.svc,
                       [kind |-> "events", days |-> days,
                        group_name |-> group_name, kid_name |-> kid_name,
                        count |-> Len(events),
                        events |-> sorted_by_start(events),
                        family |-> Val(f.ret),
                        scanned |-> scanned],
                       remote \o f.remote, f.t)

\* lines 371-420
handle_get_upcoming_events(svc, days, group_name, kid_name, t, envs) ==
    IF kid_name # <<>>
    THEN LET kid_group_names == get_kid_group_names(svc, kid_name) IN
         IF kid_group_names = <<>>
         THEN Returned(svc, [kind |-> "unknown_kid", kid_name |-> kid_name],
                       <<>>, t)
         ELSE LET g == get_groups(svc, t, envs.groups) IN
              IF g.raised THEN g
              ELSE LET acc == kid_groups_loop(AggregationStart(g), days,
                                              kid_group_names, Val(g.ret),
                                              envs.events, 1)
                   IN  IF acc.raised THEN Raised(acc.svc, acc.remote, acc.t)
                       ELSE upcoming_result(acc.svc,
                                sorted_by_start(acc.all_events), acc.scanned,
                                days, group_name, kid_name, acc.remote,
                                acc.t, envs)
    ELSE IF group_name # <<>>
    THEN LET g == get_groups(svc, t, envs.groups) IN
         IF g.raised THEN g
         ELSE LET group_id == find_group_id(group_name, Val(g.ret)) IN
              IF ~Truthy(group_id)
              THEN Returned(g.svc, [kind |-> "no_group",
                                    group_name |-> group_name], g.remote, g.t)
              ELSE LET r == get_events(g.svc, days, group_id, g.t,
                                       envs.events)
                   IN  IF r.raised
                       THEN Raised(r.svc, g.remote \o r.remote, r.t)
                       ELSE upcoming_result(r.svc, Val(r.ret).events, <<>>,
                                days, group_name, kid_name,
                                g.remote \o r.remote, r.t, envs)
    ELSE LET r == get_events(svc, days, None, t, envs.events) IN
         IF r.raised THEN r
         ELSE upcoming_result(r.svc, Val(r.ret).events, <<>>, days,
                              group_name, kid_name, r.remote, r.t, envs)

\* lines 442-445 for one event: line 444 reads e["id"], which raises
\* KeyError when the event has no id
att_add_if_unseen(acc, e) ==
    IF event_id_of(e) \in acc.seen_ids THEN acc
    ELSE IF IsNone(e.id) THEN [acc EXCEPT !.raised = TRUE]
    ELSE [acc EXCEPT !.seen_ids = @ \cup {Val(e.id)},
                     !.all_events = Append(@, e)]

RECURSIVE att_add_events(_, _, _)
\* the loop of line 442 from index i on; an exception ends it
att_add_events(acc, events, i) ==
    IF acc.raised \/ i > Len(events) THEN acc
    ELSE att_add_events(att_add_if_unseen(acc, events[i]), events, i + 1)

\* lines 440-445 for one configured group name
att_kid_group_step(acc, days, gname, groups, env) ==
    LET gid == find_group_id(gname, groups) IN
    IF ~Truthy(gid)
    THEN [acc EXCEPT !.scanned = Append(@, [name |-> gname, gid |-> gid,
                                            events |-> None])]
    ELSE LET r == get_events(acc.svc, days, gid, acc.t, env) IN
         IF r.raised
         THEN [acc EXCEPT !.svc = r.svc, !.t = r.t, !.raised = TRUE,
                          !.remote = @ \o r.remote]
         ELSE [att_add_events(acc, Val(r.ret).events, 1)
                  EXCEPT !.svc = r.svc, !.t = r.t,
                         !.remote = @ \o r.remote,
                         !.scanned = Append(@, [name |-> gname, gid |-> gid,
                                                events |-> Some(Val(r.ret).events)])]

RECURSIVE att_kid_groups_loop(_, _, _, _, _, _)
\* the loop of line 439 from index i on; an exception ends it
att_kid_groups_loop(acc, days, kid_group_names, groups, env, i) ==
    IF acc.raised \/ i > Len(kid_group_names) THEN acc
    ELSE att_kid_groups_loop(
             att_kid_group_step(acc, days, kid_group_names[i], groups, env),
             days, kid_group_names, groups, env, i + 1)

\* the code point order of the characters
CharRank(c) == CASE c = "A" -> 1 [] c = "a" -> 2 [] OTHER -> 3

RECURSIVE NameLessEq(_, _)
\* a <= b on str
NameLessEq(a, b) ==
    IF a = <<>> THEN TRUE
    ELSE IF b = <<>> THEN FALSE
    ELSE IF CharRank(Head(a)) # CharRank(Head(b))
         THEN CharRank(Head(a)) < CharRank(Head(b))
         ELSE NameLessEq(Tail(a), Tail(b))

RECURSIVE insert_by_name(_, _, _)
insert_by_name(sorted, item, i) ==
    IF i = 0 \/ NameLessEq(sorted[i][2], item[2])
    THEN SubSeq(sorted, 1, i) \o <<item>> \o SubSeq(sorted, i + 1, Len(sorted))
    ELSE insert_by_name(sorted, item, i - 1)

RECURSIVE sort_items_from(_, _, _)
sort_items_from(sorted, items, i) ==
    IF i > Len(items) THEN sorted
    ELSE sort_items_from(insert_by_name(sorted, items[i], Len(sorted)),
                         items, i + 1)

\* sorted(family.items(), key=lambda x: x[1])
sorted_by_name(family) == sort_items_from(<<>>, family, 1)

\* set(event.get("responses", {}).get("unansweredIds", []))
unanswered_ids_of(e) ==
    IF "unansweredIds" \in DOMAIN e THEN e.unansweredIds ELSE {}

RECURSIVE missing_from(_, _, _, _)
\* lines 459-463: the names, in name order, of the family members asked
\* for who have not answered the event
missing_from(items, kid_name, unanswered_ids, i) ==
    IF i > Len(items) THEN <<>>
    ELSE LET rest == missing_from(items, kid_name, unanswered_ids, i + 1) IN
         IF kid_name # <<>> /\ lower(items[i][2]) # lower(kid_name) THEN rest
         ELSE IF items[i][1] \in unanswered_ids
              THEN <<items[i][2]>> \o rest
              ELSE rest

RECURSIVE unanswered_from(_, _, _, _)
\* lines 455-473: one entry per event, in start order, that someone asked
\* for has not answered
unanswered_from(events, family, kid_name, i) ==
    IF i > Len(events) THEN <<>>
    ELSE LET missing == missing_from(sorted_by_name(family), kid_name,
                                     unanswered_ids_of(events[i]), 1)
             rest    == unanswered_from(events, family, kid_name, i + 1)
         IN  IF missing # <<>>
             THEN <<[event |-> events[i], missing |-> missing]>> \o rest
             ELSE rest

\* lines 447-483; aggregated and scanned are the events the message is
\* about and the trace of the aggregation that produced them
attendance_result(svc, events, scanned, days, kid_name, remote, t, envs) ==
    IF events = <<>>
    THEN Returned(svc, [kind |-> "no_upcoming", aggregated |-> events,
                        scanned |-> scanned], remote, t)
    ELSE LET f == resolve_family_members(svc, t, envs.groups) IN
         IF f.raised THEN Raised(f.svc, remote \o f.remote, f.t)
         ELSE IF Val(f.ret) = <<>>
         THEN Returned(f.svc, [kind |-> "no_family", aggregated |-> events,
                               scanned |-> scanned], remote \o f.remote, f.t)
         ELSE LET unanswered_events ==
                      unanswered_from(sorted_by_start(events), Val(f.ret),
                                      kid_name, 1)
              IN  Returned(f.svc,
                      [kind |-> IF unanswered_events = <<>>
                                THEN "all_answered" ELSE "unanswered",
                       kid_name |-> kid_name, days |-> days,
                       count |-> Len(unanswered_events),
                       unanswered |-> unanswered_events,
                       aggregated |-> events, scanned |-> scanned],
                      remote \o f.remote, f.t)

\* lines 429-483
handle_get_attendance(svc, kid_name, days, t, envs) ==
    IF kid_name # <<>>
    THEN LET kid_group_names == get_kid_group_names(svc, kid_name) IN
         IF kid_group_names = <<>>
         THEN Returned(svc, [kind |-> "unknown_kid", kid_name |-> kid_name],
                       <<>>, t)
         ELSE LET g == get_groups(svc, t, envs.groups) IN
              IF g.raised THEN g
              ELSE LET acc == att_kid_groups_loop(AggregationStart(g), days,
                                                  kid_group_names, Val(g.ret),
                                                  envs.events, 1)
                   IN  IF acc.raised THEN Raised(acc.svc, acc.remote, acc.t)
                       ELSE attendance_result(acc.svc, acc.all_events,
                                acc.scanned, days, kid_name, acc.remote,
                                acc.t, envs)
    ELSE LET r == get_events(svc, days, None, t, envs.events) IN
         IF r.raised THEN r
         ELSE attendance_result(r.svc, Val(r.ret).events, <<>>, days,
                                kid_name, r.remote, r.t, envs)

\* lines 423-426
handle_get_event_details(svc, event_id, t, envs) ==
    LET e == get_event(svc, event_id, t, envs.events) IN
    IF e.raised THEN e
    ELSE LET f == resolve_family_members(e.svc, e.t, envs.groups) IN
         IF f.raised THEN Raised(f.svc, e.remote \o f.remote, f.t)
         ELSE Returned(f.svc, [kind |-> "event_detail", event |-> Val(e.ret),
                               family |-> Val(f.ret)],
                       e.remote \o f.remote, f.t)

\* handle_respond_to_event that submits without a member id when the kid
\* is not found
handle_respond_to_event_unchecked(svc, event_id, kid_name, accept, decline_message, t, envs) ==
    LET m == find_member_id(svc, kid_name, t, envs.groups) IN
    IF m.raised THEN m
    ELSE LET member_id == IF Truthy(Val(m.ret)) THEN Val(Val(m.ret)) ELSE ""
             c == change_response(m.svc, event_id, member_id, accept,
                                  decline_message, m.t, envs.submit)
         IN  IF c.raised THEN Raised(c.svc, m.remote \o c.remote, c.t)
             ELSE Returned(c.svc,
                           [kind |-> "responded",
                            action |-> IF accept THEN "akseptert"
                                                 ELSE "avslaatt",
                            kid_name |-> kid_name],
                           m.remote \o c.remote, c.t)

\* lines 486-499
handle_respond_to_event(svc, event_id, kid_name, accept, decline_message, t, envs) ==
    LET m == find_member_id(svc, kid_name, t, envs.groups) IN
    IF m.raised THEN m
    ELSE IF ~Truthy(Val(m.ret))
    THEN Returned(m.svc, [kind |-> "kid_not_found", kid_name |-> kid_name],
                  m.remote, m.t)
    ELSE LET c == change_response(m.svc, event_id, Val(Val(m.ret)), accept,
                                  decline_message, m.t, envs.submit)
         IN  IF c.raised THEN Raised(c.svc, m.remote \o c.remote, c.t)
             ELSE Returned(c.svc,
                           [kind |-> "responded",
                            action |-> IF accept THEN "akseptert"
                                                 ELSE "avslaatt",
                            kid_name |-> kid_name],
                           m.remote \o c.remote, c.t)

RECURSIVE insert_group_by_name(_, _, _)
insert_group_by_name(sorted, g, i) ==
    IF i = 0 \/ NameLessEq(sorted[i].name, g.name)
    THEN SubSeq(sorted, 1, i) \o <<g>> \o SubSeq(sorted, i + 1, Len(sorted))
    ELSE insert_group_by_name(sorted, g, i - 1)

RECURSIVE sort_groups_from(_, _, _)
sort_groups_from(sorted, groups, i) ==
    IF i > Len(groups) THEN sorted
    ELSE sort_groups_from(insert_group_by_name(sorted, groups[i], Len(sorted)),
                          groups, i + 1)

\* lines 361-368; one summary line per group: its name and member count
handle_list_groups(svc, t, envs) ==
    LET g == get_groups(svc, t, envs.groups) IN
    IF g.raised THEN g
    ELSE IF Val(g.ret) = <<>>
    THEN Returned(g.svc, [kind |-> "no_groups"], g.remote, g.t)
    ELSE LET sorted == sort_groups_from(<<>>, Val(g.ret), 1) IN
         Returned(g.svc,
                  [kind |-> "groups", count |-> Len(Val(g.ret)),
                   lines |-> [i \in 1..Len(sorted) |->
                                 [name |-> sorted[i].name,
                                  members |-> Len(members_of(sorted[i]))]]],
                  g.remote, g.t)

\* event.get("heading", "") and event.get("description", "")
heading_of(e) == IF "heading" \in DOMAIN e THEN e.heading ELSE <<>>

description_of(e) == IF "description" \in DOMAIN e THEN e.description ELSE <<>>

\* lines 508-512: the events whose heading or description holds the query
matching_events(events, query_lower) ==
    SelectSeq(events, LAMBDA e : \/ StrIn(query_lower, lower(heading_of(e)))
                                 \/ StrIn(query_lower, lower(description_of(e))))

\* lines 502-525
handle_search_events(svc, query, days, t, envs) ==
    LET r == get_events(svc, days, None, t, envs.events) IN
    IF r.raised THEN r
    ELSE LET matches == matching_events(Val(r.ret).events, lower(query)) IN
         IF matches = <<>>
         THEN Returned(r.svc, [kind |-> "no_matches", query |-> query,
                               days |-> days], r.remote, r.t)
         ELSE LET f == resolve_family_members(r.svc, r.t, envs.groups) IN
              IF f.raised THEN Raised(f.svc, r.remote \o f.remote, f.t)
              ELSE Returned(f.svc,
                            [kind |-> "matches", query |-> query,
                             count |-> Len(matches),
                             events |-> sorted_by_start(matches),
                             family |-> Val(f.ret)],
                            r.remote \o f.remote, f.t)

\* {} : the arguments of a call without arguments
EmptyArgs == [k \in {} |-> None]

\* args.get(key, default)
arg_get(args, key, default) ==
    IF key \in DOMAIN args THEN args[key] ELSE default

\* the message that names the missing parameters
validation(required) == [kind |-> "validation", required |-> required]

\* line 555 testing accept for truth instead of for None
accept_missing_if_falsy(args) ==
    "accept" \notin DOMAIN args \/ args.accept = FALSE

\* line 555:  accept is None
accept_missing(args) == "accept" \notin DOMAIN args

\* lines 528-576; line 531 puts {} for arguments that are None
handle_tool_call(svc, name, arguments, t, envs) ==
    LET args == IF IsNone(arguments) THEN EmptyArgs ELSE Val(arguments)
    IN  CASE name = "list_groups" -> handle_list_groups(svc, t, envs)
          [] name = "get_upcoming_events" ->
                handle_get_upcoming_events(svc, arg_get(args, "days", 7),
                    arg_get(args, "group_name", <<>>),
                    arg_get(args, "kid_name", <<>>), t, envs)
          [] name = "get_event_details" ->
                IF arg_get(args, "event_id", "") = ""
                THEN Returned(svc, validation({"event_id"}), <<>>, t)
                ELSE handle_get_event_details(svc, args.event_id, t, envs)
          [] name = "get_attendance" ->
                handle_get_attendance(svc, arg_get(args, "kid_name", <<>>),
                                      arg_get(args, "days", 14), t, envs)
          [] name = "respond_to_event" ->
                IF \/ arg_get(args, "event_id", "") = ""
                   \/ arg_get(args, "kid_name", <<>>) = <<>>
                   \/ accept_missing(args)
                THEN Returned(svc,
                              validation({"event_id", "kid_name", "accept"}),
                              <<>>, t)
                ELSE handle_respond_to_event(svc, args.event_id,
                         args.kid_name, args.accept,
                         arg_get(args, "decline_message", ""), t, envs)
          [] name = "search_events" ->
                IF arg_get(args, "query", <<>>) = <<>>
                THEN Returned(svc, validation({"query"}), <<>>, t)
                ELSE handle_search_events(svc, args.query,
                                          arg_get(args, "days", 30), t, envs)
          [] OTHER -> Returned(svc, [kind |-> "unknown_tool", name |-> name],
                               <<>>, t)

-----------------------------------------------------------------------------
(* Bounds and sample data                                                  *)

\* clock advances per behaviour
MaxTicks == 2

\* seconds the clock advances by in one step: one second, and the steps that
\* bring an entry stored now to one second before each TTL
TickSteps == {1, EVENTS_TTL - 1, GROUPS_TTL - 1}

\* seconds an awaited Remote Source call takes
Latencies == {0, 1}

Member(id, first) ==
    [id |-> id, firstName |-> Some(first), roles |-> {"member"}]

Group(id, name, members) == [id |-> id, name |-> name, members |-> Some(members)]

Kid(name, groups) == [name |-> name, groups |-> Some(groups)]

\* one configured kid "a" in the configured group "ab"
SampleKids == << Kid(<<"a">>, << <<"a", "b">> >>) >>

\* group "Abb" matches "ab"; group "bA" does not
GroupsV1 ==
    << Group("G1", <<"A", "b", "b">>, << Member("M1", <<"A">>),
                                        Member("M2", <<"b">>) >>),
       Group("G2", <<"b", "A">>, << Member("M3", <<"a">>) >>) >>

\* the same groups after the kid was re-registered under a new member id
GroupsV2 ==
    << Group("G1", <<"A", "b", "b">>, << Member("M2", <<"b">>),
                                        Member("M4", <<"a">>) >>),
       Group("G2", <<"b", "A">>, << Member("M3", <<"a">>) >>) >>

\* only the group that matches no configured name is left
GroupsV3 == << Group("G2", <<"b", "A">>, << Member("M3", <<"a">>) >>) >>

SampleGroupLists == {GroupsV1, GroupsV2, GroupsV3}

Event(id, start) == [id |-> Some(id), startTimestamp |-> Some(start)]

SampleEvents ==
    [g \in {"G1", "G2", "all", "*"} |->
        CASE g = "G1"  -> << Event("E1", 23), Event("E2", 25) >>
          [] g = "G2"  -> << Event("E3", 24) >>
          [] g = "all" -> << Event("E4", 26) >>
          [] OTHER     -> << Event("E1", 23), Event("E2", 25), Event("E3", 24),
                             Event("E4", 26) >>]

\* arguments of find_member_id
KidNameArgs == {<<"A">>, <<"b">>}

\* arguments (days, group_id) of get_events
EventArgs == {<<7, None>>, <<14, Some("G1")>>}

\* the same with group ids that meet the key's spelling of "no group"
KeyArgs ==
    ({7} \X {None, Some(""), Some("all"), Some("G1")}) \cup {<<14, None>>}

-----------------------------------------------------------------------------
(* State machine of one facade used by one caller at a time                *)

\* the record of a facade call: what was called with which arguments, the
\* cache entry under the key it reads as it was before the call (pre), what
\* it returned, the Remote Source invocations it made, whether it raised,
\* and the times at which it started (t0) and ended (t)
NoCall == [op |-> "none", args |-> <<>>, pre |-> None, ret |-> None,
           remote |-> <<>>, raised |-> FALSE, t0 |-> 0, t |-> 0]

\* no call is suspended
NoTasks == <<>>

\* the clientsession attribute of the Remote Source client: missing, empty,
\* or a session on which close() was invoked a number of times
NoHandle == None

EmptyHandle == Some(None)

Session(closes) == Some(Some(closes))

\* the client after construction: it holds an open session
Connected == Session(0)

\* __init__, lines 22-27, for a configuration and a Remote Source content
FacadeInit(kidConfigs, groupLists) ==
    /\ now = 0
    /\ ticks = 0
    /\ kids \in kidConfigs
    /\ cache = EmptyCache
    /\ family_members = None
    /\ group_map = None
    /\ remoteGroups \in groupLists
    /\ client = Connected
    /\ remoteEvents = SampleEvents
    /\ last = NoCall
    /\ tasks = NoTasks
    /\ arg = <<>>
    /\ res = <<>>

Svc == [kids |-> kids, cache |-> cache, family_members |-> family_members,
        group_map |-> group_map]

Env(ok, lat) == [ok |-> ok, lat |-> lat, groups |-> remoteGroups,
                 events |-> remoteEvents]

EntryAt(key) == IF key \in DOMAIN cache THEN Some(cache[key]) ELSE None

\* the facade and the clock after a call, and the record of the call
Apply(op, args, key, out) ==
    /\ out.t > now => ticks < MaxTicks
    /\ now' = out.t
    /\ ticks' = IF out.t > now THEN ticks + 1 ELSE ticks
    /\ kids' = out.svc.kids
    /\ cache' = out.svc.cache
    /\ family_members' = out.svc.family_members
    /\ group_map' = out.svc.group_map
    /\ last' = [op |-> op, args |-> args, pre |-> EntryAt(key),
                ret |-> out.ret, remote |-> out.remote, raised |-> out.raised,
                t0 |-> now, t |-> out.t]
    /\ UNCHANGED <<remoteGroups, remoteEvents, tasks, arg, res>>

\* a call of an operation that does not touch the client's session
Commit(op, args, key, out) ==
    /\ Apply(op, args, key, out)
    /\ UNCHANGED client

GetGroups(ok, lat) ==
    Commit("get_groups", <<>>, "groups", get_groups(Svc, now, Env(ok, lat)))

GetEvents(days, group_id, ok, lat) ==
    Commit("get_events", <<days, group_id>>, cache_key(days, group_id),
           get_events(Svc, days, group_id, now, Env(ok, lat)))

ResolveFamilyMembers(ok, lat) ==
    Commit("resolve_family_members", <<>>, "groups",
           resolve_family_members(Svc, now, Env(ok, lat)))

FindMemberId(kid_name, ok, lat) ==
    Commit("find_member_id", <<kid_name>>, "groups",
           find_member_id(Svc, kid_name, now, Env(ok, lat)))

ClearCache == Commit("clear_cache", <<>>, "groups", clear_cache(Svc, now))

\* time passes
Tick(d) ==
    /\ ticks < MaxTicks
    /\ now' = now + d
    /\ ticks' = ticks + 1
    /\ UNCHANGED <<kids, cache, family_members, group_map, remoteGroups,
                   remoteEvents, last, tasks, arg, res, client>>

\* the Remote Source's group list changes
RemoteChange(groups) ==
    /\ groups # remoteGroups
    /\ remoteGroups' = groups
    /\ UNCHANGED <<now, ticks, kids, cache, family_members, group_map,
                   remoteEvents, last, tasks, arg, res, client>>

Init == FacadeInit({SampleKids}, {GroupsV1, GroupsV2})

Next ==
    \/ \E ok \in BOOLEAN, lat \in Latencies : GetGroups(ok, lat)
    \/ \E a \in EventArgs, ok \in BOOLEAN, lat \in Latencies :
          GetEvents(a[1], a[2], ok, lat)
    \/ ClearCache
    \/ \E d \in TickSteps : Tick(d)
    \/ \E groups \in {GroupsV1, GroupsV2} : RemoteChange(groups)

Spec == Init /\ [][Next]_vars

FamilyInit == FacadeInit({SampleKids, <<>>}, SampleGroupLists)

FamilyNext ==
    \/ \E ok \in BOOLEAN, lat \in Latencies : GetGroups(ok, lat)
    \/ \E ok \in BOOLEAN, lat \in Latencies : ResolveFamilyMembers(ok, lat)
    \/ \E kid_name \in KidNameArgs, ok \in BOOLEAN, lat \in Latencies :
          FindMemberId(kid_name, ok, lat)
    \/ ClearCache
    \/ \E d \in TickSteps : Tick(d)
    \/ \E groups \in SampleGroupLists : RemoteChange(groups)

SpecFamily == FamilyInit /\ [][FamilyNext]_vars

-----------------------------------------------------------------------------
(* get_events under every spelling of its arguments                        *)

KeysNext ==
    \/ \E a \in KeyArgs, ok \in BOOLEAN, lat \in Latencies :
          GetEvents(a[1], a[2], ok, lat)
    \/ \E ok \in BOOLEAN, lat \in Latencies : GetGroups(ok, lat)
    \/ ClearCache
    \/ Tick(EVENTS_TTL - 1)

SpecKeys == FacadeInit({SampleKids}, {GroupsV1}) /\ [][KeysNext]_vars

-----------------------------------------------------------------------------
(* The pure functions on bounded inputs                                    *)

\* longest name
MaxNameLen == 2

RECURSIVE StringsUpTo(_)
StringsUpTo(n) ==
    IF n = 0 THEN {<<>>}
    ELSE LET S == StringsUpTo(n - 1)
         IN  S \cup {Append(s, c) : s \in S, c \in Chars}

Names == StringsUpTo(MaxNameLen)

NameLists ==
    {<<>>} \cup {<<a>> : a \in Names} \cup {<<a, b>> : a, b \in Names}

GroupIds == <<"G1", "G2">>

\* a group list with the given names, in order
GroupsNamed(names) ==
    [i \in 1..Len(names) |-> Group(GroupIds[i], names[i], <<>>)]

NoResult == [op |-> "none", val |-> None]

IdleFacade ==
    /\ now = 0
    /\ ticks = 0
    /\ kids = <<>>
    /\ cache = EmptyCache
    /\ family_members = None
    /\ group_map = None
    /\ remoteGroups = <<>>
    /\ client = Connected
    /\ remoteEvents = SampleEvents
    /\ last = NoCall
    /\ tasks = NoTasks

MatchInit ==
    /\ IdleFacade
    /\ arg \in [name : Names, names : NameLists]
    /\ res = NoResult

FuzzyMatchGroup ==
    /\ res' = [op |-> "fuzzy_match_group",
               val |-> fuzzy_match_group(arg.name, arg.names)]
    /\ UNCHANGED <<now, ticks, kids, cache, family_members, group_map,
                   remoteGroups, remoteEvents, last, tasks, arg, client>>

FindGroupId ==
    /\ res' = [op |-> "find_group_id",
               val |-> find_group_id(arg.name, GroupsNamed(arg.names))]
    /\ UNCHANGED <<now, ticks, kids, cache, family_members, group_map,
                   remoteGroups, remoteEvents, last, tasks, arg, client>>

MatchNext == FuzzyMatchGroup \/ FindGroupId

SpecMatch == MatchInit /\ [][MatchNext]_vars

-----------------------------------------------------------------------------
(* resolve_family_members on bounded configurations and group lists        *)

\* members per group
MaxMembers == 2

ConfiguredNames == {<<"a">>, <<"a", "b", "a">>}

KidRecords ==
    {[name |-> n, groups |-> g] :
        n \in {<<"a">>, <<"b">>},
        g \in {None} \cup {Some(<<c>>) : c \in ConfiguredNames}}

KidConfigs ==
    {<<>>} \cup {<<k>> : k \in KidRecords}
           \cup {<<k1, k2>> : k1 \in KidRecords, k2 \in KidRecords}

MemberRecords ==
    {Member(id, first) : id \in {"M1", "M2"}, first \in {<<"A">>, <<"b">>}}

RECURSIVE MemberListsUpTo(_)
MemberListsUpTo(n) ==
    IF n = 0 THEN {<<>>}
    ELSE LET S == MemberListsUpTo(n - 1)
         IN  S \cup {Append(s, m) : s \in S, m \in MemberRecords}

RemoteGroupNames == {<<"A", "b">>, <<"b">>}

\* a first group with up to MaxMembers members or without a member list,
\* and possibly a second group with at most one member
GroupLists ==
    LET first  == {[id |-> "G1", name |-> n, members |-> ms] :
                     n \in RemoteGroupNames,
                     ms \in {None} \cup {Some(l) : l \in MemberListsUpTo(MaxMembers)}}
        second == {[id |-> "G2", name |-> n, members |-> Some(l)] :
                     n \in RemoteGroupNames, l \in MemberListsUpTo(1)}
    IN  {<<>>} \cup {<<g>> : g \in first}
               \cup {<<g1, g2>> : g1 \in first, g2 \in second}

ResolveNext ==
    \/ \E ok \in BOOLEAN : ResolveFamilyMembers(ok, 0)
    \/ ClearCache

SpecResolve == FacadeInit(KidConfigs, GroupLists) /\ [][ResolveNext]_vars

-----------------------------------------------------------------------------
(* Claims about the cache                                                  *)

IsRead(c) == c.op \in {"get_groups", "get_events"}

TtlOf(c) == IF c.op = "get_groups" THEN GROUPS_TTL ELSE EVENTS_TTL

KeyOf(c) == IF c.op = "get_groups" THEN "groups"
            ELSE cache_key(c.args[1], c.args[2])

\* the call returned without invoking the Remote Source
ServedFromCache(c) == ~c.raised /\ c.remote = <<>>

\* the step is a facade call
IsCall == IF last'.op # last.op THEN TRUE ELSE last' # last

\* C1: a read (get_groups with GROUPS_TTL, get_events with EVENTS_TTL) is
\* served from the cache only if the entry under its key existed with
\* t0 - ts < ttl, and then returns that entry's value; an entry whose age is
\* equal to or greater than the TTL is treated as absent: the Remote Source
\* is invoked.
C1_NoValuePastTtl ==
    IsRead(last) =>
        /\ ServedFromCache(last) =>
              /\ ~IsNone(last.pre)
              /\ last.t0 - Val(last.pre).ts < TtlOf(last)
              /\ last.ret = Some(Val(last.pre).data)
        /\ (~IsNone(last.pre) /\ last.t0 - Val(last.pre).ts >= TtlOf(last)) =>
              /\ Len(last.remote) = 1
              /\ last.remote[1].op = last.op

C1_Witness ==
    /\ IsRead(last)
    /\ ~IsNone(last.pre)
    /\ last.t0 - Val(last.pre).ts = TtlOf(last)
    /\ last.remote # <<>>

\* the value under key was stored by a call with the parameters of call c
StoredFor(c, entry) == c.op = "get_events" => entry.data.req = c.args

\* C2: a get_groups or get_events call that starts less than the TTL after
\* a call with the same parameters stored its result, the entry still being
\* there, returns the stored value, invokes no Remote Source operation and
\* leaves the facade as it was.
C2_FreshEntryServed ==
    [][ (IsCall /\ IsRead(last')
         /\ KeyOf(last') \in DOMAIN cache
         /\ now - cache[KeyOf(last')].ts < TtlOf(last')
         /\ StoredFor(last', cache[KeyOf(last')]))
        => /\ ~last'.raised
           /\ last'.remote = <<>>
           /\ last'.ret = Some(cache[KeyOf(last')].data)
           /\ UNCHANGED <<now, cache, family_members, group_map>> ]_vars

C2_Witness ==
    /\ last.op = "get_groups"
    /\ ServedFromCache(last)
    /\ last.t0 - Val(last.pre).ts = GROUPS_TTL - 1
    /\ last.ret # Some(remoteGroups)

\* the value a successful fetch returns is the Remote Source's answer of now
IsFresh(c) ==
    IF c.op = "get_groups" THEN c.ret = Some(remoteGroups)
    ELSE Val(c.ret).req = c.args /\ Val(c.ret).at = c.t

\* C3: when the entry under a read's key has reached its TTL, the read
\* invokes the Remote Source exactly once and, if that succeeds, overwrites
\* the entry with the fresh value stamped with the time of the write; the
\* next call with the same parameters less than the TTL later is served
\* that value from the cache without a remote call.
C3_ExpiredEntryRefetched ==
    [][ /\ (IsCall /\ IsRead(last')
            /\ KeyOf(last') \in DOMAIN cache
            /\ now - cache[KeyOf(last')].ts >= TtlOf(last'))
           => /\ Len(last'.remote) = 1
              /\ last'.remote[1].op = last'.op
              /\ ~last'.raised =>
                    /\ IsFresh(last')
                    /\ cache'[KeyOf(last')] =
                          [data |-> Val(last'.ret), ts |-> now']
        /\ (IsCall /\ IsRead(last) /\ ~last.raised /\ last.remote # <<>>
            /\ ~IsNone(last.pre)
            /\ last'.op = last.op /\ last'.args = last.args
            /\ now - last.t < TtlOf(last))
           => /\ ServedFromCache(last')
              /\ last'.ret = last.ret ]_vars

C3_Witness ==
    /\ last.op = "get_events"
    /\ ServedFromCache(last)
    /\ Val(last.pre).ts >= EVENTS_TTL
    /\ last.t0 > Val(last.pre).ts

-----------------------------------------------------------------------------
(* Claims about cache keys                                                 *)

\* C4: get_events calls with different (days, group_id) use different
\* cache entries, so the value a call returns was fetched for its own
\* (days, group_id), never for another pair.
C4_ValueOfOwnParameters ==
    (last.op = "get_events" /\ ~last.raised) => Val(last.ret).req = last.args

-----------------------------------------------------------------------------
(* Claims about the family resolution map                                  *)

GroupsEntryFresh ==
    "groups" \in DOMAIN cache /\ now - cache["groups"].ts < GROUPS_TTL

IsResolve(c) == c.op = "resolve_family_members"

\* C5: a resolve_family_members call that follows a resolve_family_members
\* call that returned, with no other facade call in between and after any
\* lapse of time, makes no remote call and returns the same map, empty or
\* not; and a call that finds the map unbuilt and no valid Groups entry
\* makes exactly one Group-list fetch, so that the two calls together
\* make exactly one.
C5_ResolveIdempotent ==
    [][ /\ (IsCall /\ IsResolve(last') /\ IsResolve(last) /\ ~last.raised)
           => /\ ServedFromCache(last')
              /\ last'.ret = last.ret
              /\ UNCHANGED <<cache, family_members, group_map>>
        /\ (IsCall /\ IsResolve(last') /\ ~last'.raised
            /\ IsNone(family_members) /\ ~GroupsEntryFresh)
           => last'.remote = <<[op |-> "get_groups"]>> ]_vars

C5_Witness ==
    /\ IsResolve(last)
    /\ ServedFromCache(last)
    /\ last.ret = Some(<<>>)
    /\ kids # <<>>
    /\ "groups" \in DOMAIN cache
    /\ last.t0 - cache["groups"].ts >= GROUPS_TTL

\* the first key of dict d, in insertion order, whose value equals name
\* up to case
FirstKeyNamed(d, name) ==
    LET hits == {i \in 1..Len(d) : lower(d[i][2]) = lower(name)}
    IN  IF hits = {} THEN None
        ELSE Some(d[CHOOSE i \in hits : \A j \in hits : i <= j][1])

\* C6: a built family map stays as it is under every step that is not
\* clear_cache, whatever time passes and whether or not the Groups entry
\* expires and is refetched, and while it is built resolve_family_members
\* and find_member_id answer from it without a remote call.
C6_MapClearedOnlyExplicitly ==
    [][ /\ (~IsNone(family_members) /\ ~(IsCall /\ last'.op = "clear_cache"))
           => family_members' = family_members
        /\ (IsCall /\ ~IsNone(family_members) /\ IsResolve(last'))
           => /\ ServedFromCache(last')
              /\ last'.ret = family_members
        /\ (IsCall /\ ~IsNone(family_members) /\ last'.op = "find_member_id")
           => /\ ServedFromCache(last')
              /\ last'.ret =
                   Some(FirstKeyNamed(Val(family_members), last'.args[1])) ]_vars

C6_Witness ==
    /\ IsResolve(last)
    /\ ServedFromCache(last)
    /\ GroupsEntryFresh
    /\ cache["groups"].ts >= GROUPS_TTL
    /\ last.t0 >= cache["groups"].ts
    /\ last.ret # Some(build_family(kids, cache["groups"].data))

-----------------------------------------------------------------------------
(* Claims about resolution                                                 *)

\* a equals b up to case
SameName(a, b) == lower(a) = lower(b)

\* one of the two names contains the other, up to case
ContainsEitherWay(a, b) ==
    StrIn(lower(a), lower(b)) \/ StrIn(lower(b), lower(a))

\* the group's name fuzzy-matches one of the kid's configured group names
GroupOfKid(g, kid) ==
    \E i \in 1..Len(kid_groups_of(kid)) :
        ContainsEitherWay(kid_groups_of(kid)[i], g.name)

\* positions in the group's member list of the members named like the kid
NamedLike(g, kid) ==
    {i \in 1..Len(members_of(g)) :
        SameName(first_name_of(members_of(g)[i]), kid.name)}

\* C7: every entry id -> name of the built map has a configured kid with
\* that name and a fetched group that fuzzy-matches one of that kid's
\* configured group names and lists a member with that id whose first name
\* equals the kid's name up to case; without configured kids the map is
\* empty.
C7_EntriesAreFamily ==
    ~IsNone(family_members) =>
        /\ \A e \in 1..Len(Val(family_members)) :
              \E k \in 1..Len(kids), j \in 1..Len(remoteGroups) :
                 /\ kids[k].name = Val(family_members)[e][2]
                 /\ GroupOfKid(remoteGroups[j], kids[k])
                 /\ \E i \in NamedLike(remoteGroups[j], kids[k]) :
                       members_of(remoteGroups[j])[i].id =
                           Val(family_members)[e][1]
        /\ kids = <<>> => Val(family_members) = <<>>

\* a member named like a kid sits in a group that matches none of that
\* kid's configured names, and is no key of the non-empty map
C7_Witness ==
    /\ ~IsNone(family_members)
    /\ Val(family_members) # <<>>
    /\ \E k \in 1..Len(kids), j \in 1..Len(remoteGroups) :
          /\ ~GroupOfKid(remoteGroups[j], kids[k])
          /\ \E i \in NamedLike(remoteGroups[j], kids[k]) :
                members_of(remoteGroups[j])[i].id
                    \notin DictKeys(Val(family_members))

\* the first member of the group named like the kid
FirstNamedLike(g, kid) ==
    members_of(g)[CHOOSE i \in NamedLike(g, kid) :
                     \A j \in NamedLike(g, kid) : i <= j]

\* C8: the keys of the built map are exactly the ids of the first member
\* named like the kid, in member-list order, of every (kid, group) pair
\* whose group fuzzy-matches the kid's configured names and has such a
\* member: one member per pair, from every matching group.
C8_FirstMatchPerGroup ==
    ~IsNone(family_members) =>
        DictKeys(Val(family_members)) =
            {FirstNamedLike(remoteGroups[j], kids[k]).id :
                <<k, j>> \in {p \in (1..Len(kids)) \X (1..Len(remoteGroups)) :
                    /\ GroupOfKid(remoteGroups[p[2]], kids[p[1]])
                    /\ NamedLike(remoteGroups[p[2]], kids[p[1]]) # {}}}

\* a matching group lists two members named like the kid under different
\* ids, and only the first is a key
C8_Witness ==
    /\ ~IsNone(family_members)
    /\ \E k \in 1..Len(kids), j \in 1..Len(remoteGroups) :
          /\ GroupOfKid(remoteGroups[j], kids[k])
          /\ \E i \in NamedLike(remoteGroups[j], kids[k]) :
                /\ members_of(remoteGroups[j])[i].id
                       # FirstNamedLike(remoteGroups[j], kids[k]).id
                /\ members_of(remoteGroups[j])[i].id
                       \notin DictKeys(Val(family_members))
                /\ FirstNamedLike(remoteGroups[j], kids[k]).id
                       \in DictKeys(Val(family_members))

-----------------------------------------------------------------------------
(* Claims about the fuzzy matcher                                          *)

\* C9: fuzzy_match_group(name, configured) is true exactly when some
\* configured name contains name or is contained in it, up to case; it is
\* false for the empty list; and for single names it is symmetric.
C9_FuzzyMatchIsContainment ==
    res.op = "fuzzy_match_group" =>
        /\ res.val = (\E i \in 1..Len(arg.names) :
                         \/ StrIn(lower(arg.names[i]), lower(arg.name))
                         \/ StrIn(lower(arg.name), lower(arg.names[i])))
        /\ arg.names = <<>> => res.val = FALSE
        /\ Len(arg.names) = 1 =>
              res.val = fuzzy_match_group(arg.names[1], <<arg.name>>)

\* the match comes from the second configured name only, which contains
\* the longer-cased remote name
C9_Witness ==
    /\ res.op = "fuzzy_match_group"
    /\ res.val = TRUE
    /\ Len(arg.names) = 2
    /\ ~ContainsEitherWay(arg.names[1], arg.name)
    /\ ~StrIn(lower(arg.names[2]), lower(arg.name))
    /\ arg.name # lower(arg.name)
    /\ arg.name # <<>>

\* C10: find_group_id(query, groups) is the id of the first group in list
\* order whose name fuzzy_match_group accepts against the one-name list
\* [query], and None exactly when there is no such group.
C10_FindGroupIdFirstMatch ==
    res.op = "find_group_id" =>
        LET groups == GroupsNamed(arg.names)
            hits   == {i \in 1..Len(groups) :
                          fuzzy_match_group(groups[i].name, <<arg.name>>)}
        IN  /\ hits = {} <=> res.val = None
            /\ hits # {} =>
                  res.val = Some(groups[CHOOSE i \in hits :
                                           \A j \in hits : i <= j].id)

\* the first group does not match and the second matches only because its
\* name is contained in the query
C10_Witness ==
    /\ res.op = "find_group_id"
    /\ res.val = Some("G2")
    /\ Len(arg.names) = 2
    /\ ~StrIn(lower(arg.name), lower(arg.names[2]))
    /\ arg.names[2] # <<>>

-----------------------------------------------------------------------------
(* find_member_id on bounded configurations and group lists                *)

FindNext ==
    \/ \E kid_name \in KidNameArgs, ok \in BOOLEAN :
          FindMemberId(kid_name, ok, 0)
    \/ ClearCache

SpecFind == FacadeInit(KidConfigs, GroupLists) /\ [][FindNext]_vars

\* the positions in the map m of the entries whose name equals, up to case
EntriesNamed(m, display_name) ==
    {i \in 1..Len(m) : SameName(m[i][2], display_name)}

\* the Group list a get_groups call made now would return
GroupsNow == IF GroupsEntryFresh THEN cache["groups"].data ELSE remoteGroups

\* C11: a find_member_id call that returns leaves the map built: the map as
\* it was if it was built, the result of resolution if it was not; the call
\* returns the id of the first entry in the map's insertion order whose
\* name equals display_name up to case, and None exactly when no entry's
\* name does.
C11_FindMemberIdFirstByValue ==
    [][ (IsCall /\ last'.op = "find_member_id" /\ ~last'.raised) =>
          /\ ~IsNone(family_members')
          /\ IsNone(family_members) =>
                family_members' = Some(build_family(kids, GroupsNow))
          /\ ~IsNone(family_members) =>
                /\ family_members' = family_members
                /\ last'.remote = <<>>
          /\ LET m    == Val(family_members')
                 hits == EntriesNamed(m, last'.args[1])
             IN  /\ hits = {} <=> Val(last'.ret) = None
                 /\ hits # {} =>
                       Val(last'.ret) =
                           Some(m[CHOOSE i \in hits :
                                     \A j \in hits : i <= j][1]) ]_vars

\* two ids map to the name asked for in another case, and the first is
\* returned
C11_Witness ==
    /\ last.op = "find_member_id"
    /\ ~last.raised
    /\ last.remote # <<>>
    /\ ~IsNone(family_members)
    /\ Cardinality(EntriesNamed(Val(family_members), last.args[1])) = 2
    /\ Val(family_members)[1][2] # last.args[1]
    /\ Val(last.ret) = Some(Val(family_members)[1][1])

-----------------------------------------------------------------------------
(* The tool handlers on a family of two groups                             *)

\* the Remote Source's behaviour per operation: whether get_groups,
\* get_events and change_response answer or raise
Envs(okGroups, okEvents, okSubmit) ==
    [groups |-> Env(okGroups, 0), events |-> Env(okEvents, 0),
     submit |-> Env(okSubmit, 0)]

\* Both configured names resolve, to different groups; the first name
\* resolves to no group of ToolGroups; both names resolve to one group; a
\* second kid is configured with an empty group list, a third without one.
ToolKidConfigs ==
    { << Kid(<<"a">>, << <<"a", "b">>, <<"b", "a">> >>) >>,
      << Kid(<<"a">>, << <<"a", "a">>, <<"b", "a">> >>),
         Kid(<<"b">>, <<>>) >>,
      << Kid(<<"a">>, << <<"a", "b">>, <<"A", "b">> >>),
         [name |-> <<"b">>, groups |-> None] >> }

\* group "Ab" with the kid as member M1, group "bA" with the kid as M2
ToolGroups ==
    << Group("G1", <<"A", "b">>, << Member("M1", <<"A">>) >>),
       Group("G2", <<"b", "A">>, << Member("M2", <<"a">>) >>) >>

\* an event as the Remote Source lists it: id and startTimestamp may be
\* missing; unansweredIds is responses.unansweredIds
ToolEvent(id, start, unanswered) ==
    [id |-> id, startTimestamp |-> start, unansweredIds |-> unanswered]

\* the groups share event E2 and their events are not in start order; the
\* groups list events without id or without start; there are no events
EventTables ==
    { [g \in {"G1", "G2", "*"} |->
        CASE g = "G1" -> << ToolEvent(Some("E1"), Some(5), {"M1"}),
                            ToolEvent(Some("E2"), Some(3), {}) >>
          [] g = "G2" -> << ToolEvent(Some("E2"), Some(9), {"M2"}),
                            ToolEvent(Some("E3"), Some(3), {"M2"}) >>
          [] OTHER    -> << ToolEvent(Some("E1"), Some(5), {"M1"}),
                            ToolEvent(Some("E2"), Some(3), {}),
                            ToolEvent(Some("E3"), Some(3), {"M2"}) >>],
      [g \in {"G1", "G2", "*"} |->
        CASE g = "G1" -> << ToolEvent(None, Some(2), {}),
                            ToolEvent(Some("E1"), None, {"M1"}) >>
          [] g = "G2" -> << ToolEvent(None, Some(1), {"M2"}),
                            ToolEvent(Some("E1"), Some(1), {}) >>
          [] OTHER    -> << ToolEvent(None, Some(2), {}),
                            ToolEvent(Some("E1"), None, {"M1"}) >>],
      [g \in {"G1", "G2", "*"} |-> <<>>] }

\* kid_name arguments: none, the configured kids in another case, a stranger
ToolKidNames == {<<>>, <<"A">>, <<"b">>, <<"b", "b">>}

\* group_name arguments: none, a name of G1, a name of no group
ToolGroupNames == {<<>>, <<"a", "b">>, <<"a", "a">>}

ToolsInit ==
    /\ now = 0
    /\ ticks = 0
    /\ kids \in ToolKidConfigs
    /\ cache = EmptyCache
    /\ family_members = None
    /\ group_map = None
    /\ remoteGroups \in {ToolGroups, SubSeq(ToolGroups, 1, 1)}
    /\ client = Connected
    /\ remoteEvents \in EventTables
    /\ last = NoCall
    /\ tasks = NoTasks
    /\ arg = <<>>
    /\ res = <<>>

GetUpcomingEvents(days, group_name, kid_name, envs) ==
    Commit("get_upcoming_events", <<days, group_name, kid_name>>, "groups",
           handle_get_upcoming_events(Svc, days, group_name, kid_name, now,
                                      envs))

GetAttendance(kid_name, days, envs) ==
    Commit("get_attendance", <<kid_name, days>>, "groups",
           handle_get_attendance(Svc, kid_name, days, now, envs))

\* decline_message arguments: none, some
ToolDeclineMessages == {"", "syk"}

RespondToEvent(event_id, kid_name, accept, decline_message, envs) ==
    Commit("respond_to_event",
           <<event_id, kid_name, accept, decline_message>>, "groups",
           handle_respond_to_event(Svc, event_id, kid_name, accept,
                                   decline_message, now, envs))

ToolsNext ==
    \/ \E group_name \in ToolGroupNames, kid_name \in ToolKidNames,
          okG \in BOOLEAN, okE \in BOOLEAN :
          GetUpcomingEvents(7, group_name, kid_name, Envs(okG, okE, TRUE))
    \/ \E kid_name \in ToolKidNames, okG \in BOOLEAN, okE \in BOOLEAN :
          GetAttendance(kid_name, 7, Envs(okG, okE, TRUE))
    \/ \E kid_name \in ToolKidNames, accept \in BOOLEAN,
          decline_message \in ToolDeclineMessages,
          okG \in BOOLEAN, okS \in BOOLEAN :
          RespondToEvent("E1", kid_name, accept, decline_message,
                         Envs(okG, TRUE, okS))
    \/ ClearCache

SpecTools == ToolsInit /\ [][ToolsNext]_vars

-----------------------------------------------------------------------------
(* Claims about the aggregation for a kid                                  *)

\* the call was get_upcoming_events with a kid name and came to aggregate
AggregatedForKid(c) ==
    /\ c.op = "get_upcoming_events"
    /\ ~c.raised
    /\ c.args[3] # <<>>
    /\ Val(c.ret).kind \in {"events", "no_events"}

\* the event list of the result: the summaries in the order of its lines
ListedEvents(c) ==
    IF Val(c.ret).kind = "events" THEN Val(c.ret).events ELSE <<>>

RECURSIVE FetchedInOrder(_, _)
\* the events get_events returned for the resolved groups, in configured-
\* group iteration order, from entry i of the trace on
FetchedInOrder(scanned, i) ==
    IF i > Len(scanned) THEN <<>>
    ELSE (IF IsNone(scanned[i].events) THEN <<>> ELSE Val(scanned[i].events))
         \o FetchedInOrder(scanned, i + 1)

\* the position in f of the first event with the identifier of e
FirstPos(f, e) ==
    CHOOSE p \in 1..Len(f) :
        /\ event_id_of(f[p]) = event_id_of(e)
        /\ \A q \in 1..(p - 1) : event_id_of(f[q]) # event_id_of(e)

\* C12: the event list get_upcoming_events produces for a kid holds no two
\* events with the same identifier, holds exactly the first occurrence, in
\* configured-group iteration order, of every identifier among the events
\* fetched for the resolved groups, and is in ascending start order, events
\* with equal start keeping the order in which they were aggregated.
C12_AggregationDedupSorted ==
    AggregatedForKid(last) =>
        LET r == ListedEvents(last)
            f == FetchedInOrder(Val(last.ret).scanned, 1)
        IN  /\ \A i, j \in 1..Len(r) :
                  i < j => event_id_of(r[i]) # event_id_of(r[j])
            /\ \A p \in 1..Len(f) : \E i \in 1..Len(r) :
                  event_id_of(r[i]) = event_id_of(f[p])
            /\ \A i \in 1..Len(r) :
                  /\ \E p \in 1..Len(f) : event_id_of(f[p]) = event_id_of(r[i])
                  /\ r[i] = f[FirstPos(f, r[i])]
            /\ \A i, j \in 1..Len(r) :
                  i < j =>
                     /\ start_of(r[i]) <= start_of(r[j])
                     /\ start_of(r[i]) = start_of(r[j]) =>
                           FirstPos(f, r[i]) < FirstPos(f, r[j])

\* two resolved groups list one identifier with different content, the
\* fetched events are not in start order, and two listed events start at
\* the same time
C12_Witness ==
    /\ AggregatedForKid(last)
    /\ LET r == ListedEvents(last)
           f == FetchedInOrder(Val(last.ret).scanned, 1)
       IN  /\ \E p, q \in 1..Len(f) :
                 p < q /\ event_id_of(f[p]) = event_id_of(f[q]) /\ f[p] # f[q]
           /\ \E p, q \in 1..Len(f) :
                 p < q /\ start_of(f[p]) > start_of(f[q])
           /\ \E i, j \in 1..Len(r) :
                 i < j /\ start_of(r[i]) = start_of(r[j])
           /\ Len(r) = 3


\* the call is one of the two kid-scoped aggregations, for a kid name
IsKidAggregation(c) ==
    \/ c.op = "get_upcoming_events" /\ c.args[3] # <<>>
    \/ c.op = "get_attendance" /\ c.args[1] # <<>>

KidNameOf(c) == IF c.op = "get_upcoming_events" THEN c.args[3] ELSE c.args[1]

\* find_group_id resolves the configured name against the Group list the
\* handler is given now
Resolvable(gname) == Truthy(find_group_id(gname, GroupsNow))

\* the facade with the unresolvable names taken out of the configuration
WithoutUnresolvable ==
    [Svc EXCEPT !.kids =
        [k \in DOMAIN kids |->
            [kids[k] EXCEPT !.groups =
                IF IsNone(@) THEN @ ELSE Some(SelectSeq(Val(@), Resolvable))]]]

\* what the handler called in c yields on the facade svc
Rerun(c, svc, envs) ==
    IF c.op = "get_upcoming_events"
    THEN handle_get_upcoming_events(svc, c.args[1], c.args[2], c.args[3],
                                    now, envs)
    ELSE handle_get_attendance(svc, c.args[1], c.args[2], now, envs)

\* the message without the trace of the aggregation
Shown(ret) == [f \in (DOMAIN ret) \ {"scanned"} |-> ret[f]]

\* C13: when some configured group names of the kid resolve against the
\* fetched Group list and some do not, the aggregation issues events
\* fetches for resolved group ids only, fetches the events of every
\* resolved name, does not answer not-found, and in outcome, remote calls,
\* cache and message is the aggregation of a kid configured with the
\* resolvable names alone.
C13_UnresolvableSkipped ==
    [][ (/\ IsCall
         /\ IsKidAggregation(last')
         /\ LET names == get_kid_group_names(Svc, KidNameOf(last'))
            IN  /\ \E i \in 1..Len(names) : ~Resolvable(names[i])
                /\ \E i \in 1..Len(names) : Resolvable(names[i]))
        => LET names == get_kid_group_names(Svc, KidNameOf(last')) IN
           /\ \A n \in 1..Len(last'.remote) :
                 last'.remote[n].op = "get_events" =>
                    \E i \in 1..Len(names) :
                       /\ Resolvable(names[i])
                       /\ last'.remote[n].group_id =
                             find_group_id(names[i], GroupsNow)
           /\ ~last'.raised =>
                 /\ Val(last'.ret).kind \notin {"unknown_kid", "no_group"}
                 /\ Len(Val(last'.ret).scanned) = Len(names)
                 /\ \A i \in 1..Len(names) :
                       IsNone(Val(last'.ret).scanned[i].events)
                           <=> ~Resolvable(names[i])
           /\ \E okG \in BOOLEAN, okE \in BOOLEAN :
                 LET out == Rerun(last', WithoutUnresolvable,
                                  Envs(okG, okE, TRUE))
                 IN  /\ out.raised = last'.raised
                     /\ out.remote = last'.remote
                     /\ out.svc.cache = cache'
                     /\ out.svc.family_members = family_members'
                     /\ ~out.raised =>
                           Shown(Val(out.ret)) = Shown(Val(last'.ret)) ]_vars

\* a kid's first configured name resolved to no group, the second did, and
\* its events were fetched from the Remote Source and listed
C13_Witness ==
    /\ IsKidAggregation(last)
    /\ ~last.raised
    /\ Val(last.ret).kind = "events"
    /\ Len(Val(last.ret).scanned) = 2
    /\ IsNone(Val(last.ret).scanned[1].events)
    /\ ~IsNone(Val(last.ret).scanned[2].events)
    /\ \E n \in 1..Len(last.remote) : last.remote[n].op = "get_events"
    /\ Val(last.ret).count > 0

-----------------------------------------------------------------------------
(* A facade that was used before: the Group list fetched and both derived  *)
(* maps built, as at the start of test_clear_cache                         *)

GetGroupMap(ok, lat) ==
    Commit("get_group_map", <<>>, "groups", get_group_map(Svc, now, Env(ok, lat)))

\* the state after get_groups, resolve_family_members and get_group_map
\* on a new facade at time 0
WarmInit ==
    /\ now = 0
    /\ ticks = 0
    /\ kids = SampleKids
    /\ remoteGroups \in {GroupsV1, GroupsV2}
    /\ client = Connected
    /\ remoteEvents = SampleEvents
    /\ LET env == [ok |-> TRUE, lat |-> 0, groups |-> remoteGroups,
                   events |-> remoteEvents]
           new == [kids |-> kids, cache |-> EmptyCache,
                   family_members |-> None, group_map |-> None]
           g   == get_groups(new, 0, env)
           r   == resolve_family_members(g.svc, 0, env)
           m   == get_group_map(r.svc, 0, env)
       IN  /\ cache = m.svc.cache
           /\ family_members = m.svc.family_members
           /\ group_map = m.svc.group_map
           /\ last = [op |-> "get_group_map", args |-> <<>>,
                      pre |-> Some(r.svc.cache["groups"]), ret |-> m.ret,
                      remote |-> m.remote, raised |-> m.raised,
                      t0 |-> 0, t |-> m.t]
    /\ tasks = NoTasks
    /\ arg = <<>>
    /\ res = <<>>

WarmNext ==
    \/ \E ok \in BOOLEAN, lat \in Latencies : GetGroups(ok, lat)
    \/ \E ok \in BOOLEAN, lat \in Latencies : ResolveFamilyMembers(ok, lat)
    \/ \E ok \in BOOLEAN, lat \in Latencies : GetGroupMap(ok, lat)
    \/ ClearCache
    \/ \E d \in TickSteps : Tick(d)
    \/ \E groups \in {GroupsV1, GroupsV2} : RemoteChange(groups)

SpecWarm == WarmInit /\ [][WarmNext]_vars

-----------------------------------------------------------------------------
(* Claims about clear_cache                                                *)

IsClear(c) == c.op = "clear_cache"

\* the Remote Source invocations of the call are one Group-list fetch
OneGroupsFetch(c) == c.remote = <<[op |-> "get_groups"]>>

\* clear_cache empties the facade; the first get_groups that finds no
\* Groups entry fetches once and stores the list
ClearResetsAll ==
    /\ (IsCall /\ IsClear(last'))
       => /\ cache' = EmptyCache
          /\ IsNone(family_members')
          /\ IsNone(group_map')
          /\ last'.remote = <<>>
    /\ (IsCall /\ last'.op = "get_groups" /\ "groups" \notin DOMAIN cache)
       => /\ OneGroupsFetch(last')
          /\ ~last'.raised => /\ "groups" \in DOMAIN cache'
                              /\ cache'["groups"].data = Val(last'.ret)

\* C14 as stated: clear_cache drops every cache entry and unbuilds both
\* maps, and afterwards the first access to the Group list and the first
\* access to the family map each issue exactly one Group-list fetch.
C14_OneFetchEach ==
    [][ /\ ClearResetsAll
        /\ (IsCall /\ IsResolve(last') /\ IsNone(family_members))
           => OneGroupsFetch(last') ]_vars

\* C14 amended: clear_cache drops every cache entry and unbuilds both
\* maps; afterwards the first access to the Group list fetches it once,
\* and the first access to the family map rebuilds the map, fetching the
\* Group list once if no valid Groups entry exists at that time and not at
\* all if the Group list was fetched since the clear and is within its TTL.
C14_RebuiltOnNextAccess ==
    [][ /\ ClearResetsAll
        /\ (IsCall /\ IsResolve(last') /\ IsNone(family_members))
           => /\ IF GroupsEntryFresh THEN last'.remote = <<>>
                                     ELSE OneGroupsFetch(last')
              /\ ~last'.raised =>
                    /\ family_members' = Some(build_family(kids, GroupsNow))
                    /\ last'.ret = family_members' ]_vars

\* the family map was rebuilt after a clear from a Group list fetched
\* since, without a fetch of its own
C14_Witness ==
    /\ IsResolve(last)
    /\ ServedFromCache(last)
    /\ IsNone(group_map)
    /\ ~IsNone(family_members)
    /\ ~IsNone(last.pre)
    /\ Val(last.pre).ts > 0
    /\ Val(last.pre).data # GroupsV1
    /\ Val(family_members) = build_family(kids, Val(last.pre).data)
    /\ Val(family_members) # build_family(kids, GroupsV1)

-----------------------------------------------------------------------------
(* Claims about failure during a build                                     *)

\* the Group lists the Remote Source can have answered with
FetchableGroupLists == {GroupsV1, GroupsV2}

\* C15: a resolve_family_members or get_group_map call that raises made
\* one failed Group-list fetch and leaves the map it was building unbuilt
\* and the facade as it was; and a built family map (Group Name Index) is
\* always the result of the full pass over all configured kids and all
\* groups (over all groups) of one Group list the Remote Source answered
\* with, and on the step that builds it, of the list that call obtained.
C15_NoPartialMap ==
    [][ /\ (IsCall /\ IsResolve(last') /\ last'.raised)
           => /\ OneGroupsFetch(last')
              /\ IsNone(family_members) /\ IsNone(family_members')
              /\ UNCHANGED <<cache, group_map>>
        /\ (IsCall /\ last'.op = "get_group_map" /\ last'.raised)
           => /\ OneGroupsFetch(last')
              /\ IsNone(group_map) /\ IsNone(group_map')
              /\ UNCHANGED <<cache, family_members>>
        /\ (IsNone(family_members) /\ ~IsNone(family_members'))
           => /\ ~last'.raised
              /\ family_members' =
                    Some(build_family(kids, cache'["groups"].data))
        /\ (IsNone(group_map) /\ ~IsNone(group_map'))
           => /\ ~last'.raised
              /\ group_map' =
                    Some(group_index(cache'["groups"].data, <<>>, 1))
        /\ ~IsNone(family_members') =>
              \E gl \in FetchableGroupLists :
                 family_members' = Some(build_family(kids, gl))
        /\ ~IsNone(group_map') =>
              \E gl \in FetchableGroupLists :
                 group_map' = Some([i \in 1..Len(gl) |->
                                      <<gl[i].id, gl[i].name>>]) ]_vars

\* after a clear the Group-list fetch of a resolve_family_members call
\* failed, and the family map is unbuilt
C15_Witness ==
    /\ IsResolve(last)
    /\ last.raised
    /\ OneGroupsFetch(last)
    /\ IsNone(family_members)
    /\ cache = EmptyCache

-----------------------------------------------------------------------------
(* Two callers on one event loop.  A get_groups or get_events call runs    *)
(* up to its await without interruption (the cache read of lines 45-47 or  *)
(* 99-101 and the invocation of the Remote Source), is suspended there,    *)
(* and runs from the Remote Source's answer to its return without          *)
(* interruption (lines 49-50 or 109-110).  Other callers run in between.   *)

TaskIds == {"t1", "t2"}

\* a caller that has not called yet
IdleTask == [pc |-> "idle", op |-> "none", args |-> <<>>, ret |-> None,
             raised |-> FALSE, invoked |-> FALSE, stored |-> 0,
             cleared |-> FALSE]

\* the cache key and the TTL of the read op(args)
read_key(op, args) ==
    IF op = "get_groups" THEN "groups" ELSE cache_key(args[1], args[2])

read_ttl(op) == IF op = "get_groups" THEN GROUPS_TTL ELSE EVENTS_TTL

\* the number of stores made so far
StoresSoFar == Cardinality({i \in TaskIds : tasks[i].stored > 0})

\* lines 49 and 109 storing only when no other caller has stored meanwhile
store_fetched_first_wins(c, key, ttl, data, t) ==
    IF ~IsNone(get_cached(c, key, ttl, t)) THEN c
    ELSE set_cached(c, key, data, t)

\* lines 49 and 109: the store after the await
store_fetched(c, key, ttl, data, t) == set_cached(c, key, data, t)

\* lines 45-48 / 98-108: the cache read, and on a miss the invocation of
\* the Remote Source, where the caller is suspended
Begin(i, op, args) ==
    /\ tasks[i].pc = "idle"
    /\ LET cached == get_cached(cache, read_key(op, args), read_ttl(op), now)
       IN  tasks' = [tasks EXCEPT ![i] =
               IF ~IsNone(cached)
               THEN [IdleTask EXCEPT !.pc = "done", !.op = op, !.args = args,
                                     !.ret = cached]
               ELSE [IdleTask EXCEPT !.pc = "awaiting", !.op = op,
                                     !.args = args, !.invoked = TRUE]]
    /\ UNCHANGED <<now, ticks, kids, cache, family_members, group_map,
                   remoteGroups, remoteEvents, last, arg, res, client>>

\* lines 48-50 / 103-110: the Remote Source answers or raises; the answer
\* is stored and returned
Complete(i, ok) ==
    /\ tasks[i].pc = "awaiting"
    /\ LET op   == tasks[i].op
           args == tasks[i].args
           data == IF op = "get_groups" THEN remoteGroups
                   ELSE remote_get_events(Env(ok, 0), args[1], args[2], now)
       IN  IF ok
           THEN /\ cache' = store_fetched(cache, read_key(op, args),
                                          read_ttl(op), data, now)
                /\ tasks' = [tasks EXCEPT ![i].pc = "done",
                                          ![i].ret = Some(data),
                                          ![i].stored = StoresSoFar + 1]
           ELSE /\ cache' = cache
                /\ tasks' = [tasks EXCEPT ![i].pc = "done",
                                          ![i].raised = TRUE]
    /\ UNCHANGED <<now, ticks, kids, family_members, group_map,
                   remoteGroups, remoteEvents, last, arg, res, client>>

AsyncInit ==
    /\ now = 0
    /\ ticks = 0
    /\ kids = SampleKids
    /\ cache = EmptyCache
    /\ family_members = None
    /\ group_map = None
    /\ remoteGroups = GroupsV1
    /\ client = Connected
    /\ remoteEvents = SampleEvents
    /\ last = NoCall
    /\ tasks = [i \in TaskIds |-> IdleTask]
    /\ arg = <<>>
    /\ res = <<>>

AsyncNext ==
    \/ \E i \in TaskIds : Begin(i, "get_groups", <<>>)
    \/ \E i \in TaskIds, a \in EventArgs : Begin(i, "get_events", a)
    \/ \E i \in TaskIds, ok \in BOOLEAN : Complete(i, ok)
    \/ ClearCache
    \/ \E d \in TickSteps : Tick(d)
    \/ \E groups \in {GroupsV1, GroupsV2} : RemoteChange(groups)

SpecAsync == AsyncInit /\ [][AsyncNext]_vars

-----------------------------------------------------------------------------
(* Claims about concurrent reads                                           *)

\* the value is the Remote Source's answer of now to the read of task c
OwnFetch(c, value) ==
    IF c.op = "get_groups" THEN value = remoteGroups
    ELSE value.req = c.args /\ value.at = now

\* both callers read the same key, missed, and were answered
BothFetched(ts, i, j) ==
    /\ i # j
    /\ ts[i].pc = "done" /\ ts[j].pc = "done"
    /\ ts[i].op = ts[j].op /\ ts[i].args = ts[j].args
    /\ ts[i].stored > 0 /\ ts[j].stored > 0

\* C16: a read that misses the cache invokes the Remote Source itself,
\* also while another caller is suspended on a fetch for the same key; a
\* caller that is answered stores its own answer under the key, whatever
\* another caller stored there meanwhile, and returns its own answer; so
\* of two callers that both missed, the entry that remains is that of the
\* one that stored last.
C16_NoCoalescing ==
    [][ \A i \in TaskIds :
          /\ (/\ tasks[i].pc = "idle" /\ tasks'[i].pc # "idle"
              /\ IsNone(get_cached(cache,
                                   read_key(tasks'[i].op, tasks'[i].args),
                                   read_ttl(tasks'[i].op), now)))
             => /\ tasks'[i].pc = "awaiting"
                /\ tasks'[i].invoked
          /\ (tasks[i].pc = "awaiting" /\ tasks'[i].pc = "done")
             => /\ tasks'[i].invoked
                /\ ~tasks'[i].raised =>
                      /\ OwnFetch(tasks[i], Val(tasks'[i].ret))
                      /\ cache'[read_key(tasks[i].op, tasks[i].args)] =
                            [data |-> Val(tasks'[i].ret), ts |-> now]
          /\ \A j \in TaskIds :
                (/\ BothFetched(tasks', i, j)
                 /\ tasks'[i].stored < tasks'[j].stored
                 /\ read_key(tasks'[i].op, tasks'[i].args) \in DOMAIN cache')
                => cache'[read_key(tasks'[i].op, tasks'[i].args)].data =
                      Val(tasks'[j].ret) ]_vars

\* no time has passed and nothing was cleared; both callers missed the
\* Groups entry, each invoked the Remote Source and was answered with a
\* different list, and the entry is the list of the caller that stored last
C16_Witness ==
    /\ now = 0
    /\ last = NoCall
    /\ \E i, j \in TaskIds :
          /\ BothFetched(tasks, i, j)
          /\ tasks[i].op = "get_groups"
          /\ tasks[i].invoked /\ tasks[j].invoked
          /\ tasks[i].stored = 1 /\ tasks[j].stored = 2
          /\ tasks[i].ret # tasks[j].ret
          /\ cache["groups"].data = Val(tasks[j].ret)

-----------------------------------------------------------------------------
(* The uncached operations next to the cached ones                         *)

\* event ids asked for: one that the event lists hold, one that none holds
EventIdArgs == {"E1", "E9"}

\* decline messages: none, some
DeclineMessages == {"", "syk"}

GetEvent(event_id, ok, lat) ==
    Commit("get_event", <<event_id>>, "event:" \o event_id,
           get_event(Svc, event_id, now, Env(ok, lat)))

ChangeResponse(event_id, member_id, accept, decline_message, ok) ==
    Commit("change_response",
           <<event_id, member_id, accept, decline_message>>, "groups",
           change_response(Svc, event_id, member_id, accept, decline_message,
                           now, Env(ok, 0)))

DirectNext ==
    \/ \E ok \in BOOLEAN : GetEvents(7, None, ok, 0)
    \/ \E event_id \in EventIdArgs, ok \in BOOLEAN, lat \in Latencies :
          GetEvent(event_id, ok, lat)
    \/ \E accept \in BOOLEAN, decline_message \in DeclineMessages,
          ok \in BOOLEAN :
          ChangeResponse("E1", "M1", accept, decline_message, ok)
    \/ ResolveFamilyMembers(TRUE, 0)
    \/ GetGroupMap(TRUE, 0)
    \/ ClearCache
    \/ Tick(EVENTS_TTL - 1)

SpecDirect == Init /\ [][DirectNext]_vars

-----------------------------------------------------------------------------
(* Claims about the uncached operations                                    *)

\* the cache holds an event list, within its TTL at time t, that lists the
\* event
ListedInFreshEntry(event_id, t) ==
    \E k \in DOMAIN cache :
        /\ k # "groups"
        /\ t - cache[k].ts < EVENTS_TTL
        /\ \E n \in 1..Len(cache[k].data.events) :
              cache[k].data.events[n].id = Some(event_id)

\* C17: every get_event(event_id) call invokes the Remote Source's
\* get_event exactly once with that id, whatever was called before and
\* whatever the cache holds, returns the Remote Source's answer of that
\* moment if there is one, and leaves the cache, the family map and the
\* group index as they were.
C17_GetEventNeverCached ==
    [][ (IsCall /\ last'.op = "get_event")
        => /\ last'.remote = <<[op |-> "get_event",
                                event_id |-> last'.args[1]]>>
           /\ ~last'.raised =>
                 last'.ret = Some([id |-> last'.args[1], at |-> now'])
           /\ UNCHANGED <<cache, family_members, group_map>> ]_vars

\* the event was fetched while a cached event list within its TTL held
\* it, time having passed since that list was fetched
C17_Witness ==
    /\ last.op = "get_event"
    /\ ~last.raised
    /\ Len(last.remote) = 1
    /\ ListedInFreshEntry(last.args[1], last.t0)
    /\ \A k \in DOMAIN cache : cache[k].ts < last.t0
    /\ Val(last.ret).at = now

\* C18: a change_response call leaves the cache (entries, values and
\* timestamps), the family map and the group index exactly as they were,
\* whether it succeeds or raises; its only effect is one submission to the
\* Remote Source.
C18_ChangeResponseFrame ==
    [][ (IsCall /\ last'.op = "change_response")
        => /\ UNCHANGED <<cache, family_members, group_map, kids>>
           /\ Len(last'.remote) = 1
           /\ last'.remote[1].op = "change_response"
           /\ ~last'.raised => last'.ret = Some(None) ]_vars

\* a response for E1 was submitted while the cache held an event list
\* within its TTL listing E1 and both maps were built; all are still there
C18_Witness ==
    /\ last.op = "change_response"
    /\ ~last.raised
    /\ last.args[1] = "E1"
    /\ ListedInFreshEntry("E1", now)
    /\ "groups" \in DOMAIN cache
    /\ ~IsNone(family_members)
    /\ ~IsNone(group_map)

-----------------------------------------------------------------------------
(* Claims about respond_to_event and about not-found results               *)

\* the submissions among the Remote Source invocations of the call
Submissions(c) ==
    {n \in 1..Len(c.remote) : c.remote[n].op = "change_response"}

\* C19: a respond_to_event call that finds the kid in the family map
\* submits exactly once, for the given event id and the first member id
\* the map holds for the kid's name, with a payload whose accepted field
\* is "true" for an acceptance and "false" otherwise, and which carries
\* the decline message exactly when the answer is a decline and the message
\* is not empty.
C19_RespondSubmitsOnce ==
    [][ (/\ IsCall /\ last'.op = "respond_to_event"
         /\ ~IsNone(family_members')
         /\ EntriesNamed(Val(family_members'), last'.args[2]) # {})
        => LET accept  == last'.args[3]
               message == last'.args[4]
               family  == Val(family_members')
               first   == CHOOSE i \in EntriesNamed(family, last'.args[2]) :
                             \A j \in EntriesNamed(family, last'.args[2]) :
                                i <= j
           IN  /\ Cardinality(Submissions(last')) = 1
               /\ \A n \in Submissions(last') :
                     /\ last'.remote[n].event_id = last'.args[1]
                     /\ last'.remote[n].member_id = family[first][1]
                     /\ DictKeys(last'.remote[n].payload) =
                           {"accepted"} \cup
                           (IF ~accept /\ message # ""
                            THEN {"declineMessage"} ELSE {})
                     /\ DictGet(last'.remote[n].payload, "accepted") =
                           (IF accept THEN "true" ELSE "false")
                     /\ (~accept /\ message # "") =>
                           DictGet(last'.remote[n].payload, "declineMessage")
                              = message ]_vars

\* an acceptance given with a decline message was submitted without the
\* message, for the first of two member ids the kid has
C19_Witness ==
    /\ last.op = "respond_to_event"
    /\ ~last.raised
    /\ last.args[3] = TRUE
    /\ last.args[4] # ""
    /\ Val(last.ret).kind = "responded"
    /\ Cardinality(EntriesNamed(Val(family_members), last.args[2])) = 2
    /\ \E n \in Submissions(last) :
          DictKeys(last.remote[n].payload) = {"accepted"}


\* no configured kid has the name, up to case
UnknownKid(kid_name) ==
    \A k \in 1..Len(kids) : ~SameName(kids[k].name, kid_name)

\* the name matches no group of the Group list the handler is given now
NoGroupNamed(group_name) ==
    \A n \in 1..Len(GroupsNow) :
        ~ContainsEitherWay(group_name, GroupsNow[n].name)

\* the family map a resolution made now yields
FamilyNow ==
    IF ~IsNone(family_members) THEN Val(family_members)
    ELSE build_family(kids, GroupsNow)

\* the call raised only because its Group-list fetch failed
OnlyGroupsFault(c) == c.raised => OneGroupsFetch(c)

\* C20: get_upcoming_events and get_attendance for a kid name that no
\* configured kid has return the unknown-kid message without a remote call
\* and without raising; get_upcoming_events for a group name that matches
\* no group, and respond_to_event for a kid that the family map does not
\* hold, return their not-found message, fetch no events and submit
\* nothing, and raise only when the Group-list fetch they need fails.
C20_NotFoundIsAResult ==
    [][ /\ (/\ IsCall /\ IsKidAggregation(last')
            /\ UnknownKid(KidNameOf(last')))
           => /\ ~last'.raised
              /\ last'.remote = <<>>
              /\ Val(last'.ret) = [kind |-> "unknown_kid",
                                   kid_name |-> KidNameOf(last')]
              /\ UNCHANGED <<cache, family_members, group_map>>
        /\ (/\ IsCall /\ last'.op = "get_upcoming_events"
            /\ last'.args[3] = <<>> /\ last'.args[2] # <<>>
            /\ NoGroupNamed(last'.args[2]))
           => /\ OnlyGroupsFault(last')
              /\ \A n \in 1..Len(last'.remote) :
                    last'.remote[n].op = "get_groups"
              /\ ~last'.raised =>
                    Val(last'.ret) = [kind |-> "no_group",
                                      group_name |-> last'.args[2]]
        /\ (/\ IsCall /\ last'.op = "respond_to_event"
            /\ EntriesNamed(FamilyNow, last'.args[2]) = {})
           => /\ OnlyGroupsFault(last')
              /\ Submissions(last') = {}
              /\ ~last'.raised =>
                    Val(last'.ret) = [kind |-> "kid_not_found",
                                      kid_name |-> last'.args[2]] ]_vars

\* a response was asked for a kid whom no configured kid is named like; the
\* Group list was fetched, nothing was submitted, the answer is not-found
C20_Witness ==
    /\ last.op = "respond_to_event"
    /\ ~last.raised
    /\ UnknownKid(last.args[2])
    /\ last.args[2] # <<>>
    /\ OneGroupsFetch(last)
    /\ Val(last.ret).kind = "kid_not_found"
    /\ ~IsNone(family_members)
    /\ Val(family_members) # <<>>

-----------------------------------------------------------------------------
(* The tool boundary                                                       *)

ToolNames ==
    {"list_groups", "get_upcoming_events", "get_event_details",
     "get_attendance", "respond_to_event", "search_events", "delete_event"}

\* arguments of a tool call: none; each required parameter missing, empty
\* or present; accept given as false
ToolArguments ==
    {None,
     Some([event_id |-> "E1"]),
     Some([event_id |-> ""]),
     Some([query |-> <<"b">>]),
     Some([query |-> <<>>]),
     Some([kid_name |-> <<"A">>]),
     Some([event_id |-> "E1", kid_name |-> <<"A">>]),
     Some([event_id |-> "E1", accept |-> FALSE]),
     Some([kid_name |-> <<"A">>, accept |-> TRUE]),
     Some([event_id |-> "E1", kid_name |-> <<>>, accept |-> TRUE]),
     Some([event_id |-> "E1", kid_name |-> <<"A">>, accept |-> FALSE]),
     Some([event_id |-> "E1", kid_name |-> <<"A">>, accept |-> TRUE,
           decline_message |-> "syk"])}

\* events with a heading, one of which holds "b"
HeadedEvents ==
    [g \in {"G1", "G2", "*"} |->
        << [id |-> Some("E1"), startTimestamp |-> Some(5),
            unansweredIds |-> {"M1"}, heading |-> <<"A", "b">>],
           [id |-> Some("E2"), startTimestamp |-> Some(3),
            unansweredIds |-> {}, heading |-> <<"a">>] >>]

BoundaryKids ==
    << Kid(<<"A">>, << <<"a", "b">>, <<"b", "a">> >>) >>

BoundaryInit ==
    /\ now = 0
    /\ ticks = 0
    /\ kids = BoundaryKids
    /\ cache = EmptyCache
    /\ family_members = None
    /\ group_map = None
    /\ remoteGroups \in {ToolGroups, <<>>}
    /\ client = Connected
    /\ remoteEvents = HeadedEvents
    /\ last = NoCall
    /\ tasks = NoTasks
    /\ arg = <<>>
    /\ res = <<>>

ToolCall(name, arguments, envs) ==
    Commit("tool_call", <<name, arguments>>, "groups",
           handle_tool_call(Svc, name, arguments, now, envs))

BoundaryNext ==
    \/ \E name \in ToolNames, arguments \in ToolArguments,
          okG \in BOOLEAN, okE \in BOOLEAN :
          ToolCall(name, arguments, Envs(okG, okE, TRUE))
    \/ ClearCache

SpecBoundary == BoundaryInit /\ [][BoundaryNext]_vars

\* the parameter is missing from the arguments or empty
Lacks(arguments, key, empty) ==
    \/ IsNone(arguments)
    \/ key \notin DOMAIN Val(arguments)
    \/ Val(arguments)[key] = empty

\* the call is one the tool boundary rejects: a required parameter is
\* missing or empty (accept: missing), or the tool does not exist
Rejected(name, arguments) ==
    \/ name = "get_event_details" /\ Lacks(arguments, "event_id", "")
    \/ /\ name = "respond_to_event"
       /\ \/ Lacks(arguments, "event_id", "")
          \/ Lacks(arguments, "kid_name", <<>>)
          \/ IsNone(arguments)
          \/ "accept" \notin DOMAIN Val(arguments)
    \/ name = "search_events" /\ Lacks(arguments, "query", <<>>)
    \/ name \notin {"list_groups", "get_upcoming_events", "get_event_details",
                    "get_attendance", "respond_to_event", "search_events"}

\* C21: a tool call that lacks a required parameter (get_event_details:
\* event_id; respond_to_event: event_id, kid_name or accept, an accept of
\* false being present; search_events: query) returns the validation
\* message, a call of an unknown tool returns the unknown-tool message,
\* and both invoke no Remote Source operation, do not raise and leave the
\* facade as it was; a call that lacks nothing is answered by its handler.
C21_BoundaryValidation ==
    [][ (IsCall /\ last'.op = "tool_call")
        => IF Rejected(last'.args[1], last'.args[2])
           THEN /\ ~last'.raised
                /\ last'.remote = <<>>
                /\ Val(last'.ret).kind \in {"validation", "unknown_tool"}
                /\ Val(last'.ret).kind = "unknown_tool"
                      <=> last'.args[1] \notin ToolNames \ {"delete_event"}
                /\ UNCHANGED <<now, kids, cache, family_members, group_map>>
           ELSE ~last'.raised =>
                   Val(last'.ret).kind \notin {"validation", "unknown_tool"}
      ]_vars

\* with the Group list cached and the family map built, a respond_to_event
\* call with accept = false and without a kid name was rejected
C21_Witness ==
    /\ last.op = "tool_call"
    /\ last.args[1] = "respond_to_event"
    /\ last.args[2] = Some([event_id |-> "E1", accept |-> FALSE])
    /\ Val(last.ret).kind = "validation"
    /\ "groups" \in DOMAIN cache
    /\ ~IsNone(family_members)

-----------------------------------------------------------------------------
(* Connection lifetime                                                     *)

\* close() calls that reach one session per behaviour
MaxCloses == 2

LifecycleInit ==
    /\ now = 0
    /\ ticks = 0
    /\ kids = SampleKids
    /\ cache = EmptyCache
    /\ family_members = None
    /\ group_map = None
    /\ client \in {NoHandle, EmptyHandle, Connected}
    /\ remoteGroups \in {GroupsV1, GroupsV2}
    /\ remoteEvents = SampleEvents
    /\ last = NoCall
    /\ tasks = NoTasks
    /\ arg = <<>>
    /\ res = <<>>

Close ==
    LET out == close(Svc, client, now) IN
    /\ has_session(client) => Val(Val(client)) < MaxCloses
    /\ Apply("close", <<>>, "groups", out)
    /\ client' = out.client

LifecycleNext ==
    \/ \E ok \in BOOLEAN, lat \in Latencies : GetGroups(ok, lat)
    \/ \E ok \in BOOLEAN, lat \in Latencies : ResolveFamilyMembers(ok, lat)
    \/ ClearCache
    \/ Close
    \/ \E d \in TickSteps : Tick(d)

SpecLifecycle == LifecycleInit /\ [][LifecycleNext]_vars

\* C22: once close() has been called on a facade whose client holds a
\* session, however often, the session's close was invoked exactly once;
\* close() on a facade whose client has no session handle (attribute
\* missing or empty) invokes nothing, does not fail and changes nothing.
C22_ReleasedExactlyOnce ==
    last.op = "close"
    => IF has_session(client)
       THEN Val(Val(client)) = 1
       ELSE ~last.raised /\ last.remote = <<>>

-----------------------------------------------------------------------------
(* The Group Name Index over refetches                                     *)

\* GroupsV1 after group G1 was renamed
GroupsRenamed ==
    << Group("G1", <<"b", "b">>, << Member("M1", <<"A">>),
                                    Member("M2", <<"b">>) >>),
       Group("G2", <<"b", "A">>, << Member("M3", <<"a">>) >>) >>

IndexGroupLists == {GroupsV1, GroupsRenamed, GroupsV3}

IndexInit == FacadeInit({SampleKids}, {GroupsV1})

IndexNext ==
    \/ \E ok \in BOOLEAN, lat \in Latencies : GetGroups(ok, lat)
    \/ \E ok \in BOOLEAN, lat \in Latencies : GetGroupMap(ok, lat)
    \/ ClearCache
    \/ \E d \in TickSteps : Tick(d)
    \/ \E groups \in IndexGroupLists : RemoteChange(groups)

SpecIndex == IndexInit /\ [][IndexNext]_vars

\* the map holds exactly the pairs (id, name) of the groups of the list
IsIndexOf(map, groups) ==
    /\ DictKeys(map) = {groups[i].id : i \in 1..Len(groups)}
    /\ \A i \in 1..Len(groups) : DictGet(map, groups[i].id) = groups[i].name

\* the Group list last fetched from the Remote Source
LastFetched == cache["groups"].data

\* C23 as stated: whenever the Group Name Index is built, it is the mapping
\* {id -> name} of the Group list last fetched, the one get_groups serves.
C23_IndexOfServedList ==
    (~IsNone(group_map) /\ "groups" \in DOMAIN cache)
    => IsIndexOf(Val(group_map), LastFetched)

\* C23, amended: the Group Name Index is built only by a get_group_map call
\* and is then the mapping {id -> name} of the Group list get_groups serves
\* at that moment; while built it stays as it is, also when Groups are
\* refetched, until clear_cache unbuilds it.
C23_IndexOfListAtBuild ==
    [][ /\ (IsNone(group_map) /\ ~IsNone(group_map'))
           => /\ last'.op = "get_group_map"
              /\ IsIndexOf(Val(group_map'), cache'["groups"].data)
        /\ ~IsNone(group_map)
           => \/ group_map' = group_map
              \/ last'.op = "clear_cache" /\ IsNone(group_map') ]_vars

\* Groups were refetched after the index was built and the list now served
\* has another index; get_group_map answered with the index it had stored
C23_Witness ==
    /\ last.op = "get_group_map"
    /\ last.remote = <<>>
    /\ ~IsNone(group_map)
    /\ last.ret = group_map
    /\ "groups" \in DOMAIN cache
    /\ ~IsIndexOf(Val(group_map), LastFetched)

-----------------------------------------------------------------------------
(* Every facade operation, for the life cycle of the two derived maps      *)

MapsInit ==
    /\ now = 0
    /\ ticks = 0
    /\ kids = BoundaryKids
    /\ cache = EmptyCache
    /\ family_members = None
    /\ group_map = None
    /\ remoteGroups = ToolGroups
    /\ client = Connected
    /\ remoteEvents = HeadedEvents
    /\ last = NoCall
    /\ tasks = NoTasks
    /\ arg = <<>>
    /\ res = <<>>

\* find_group_id(group_name, groups) on a Group list the caller holds
FindGroupIdCall(group_name) ==
    Commit("find_group_id", <<group_name>>, "groups",
           Returned(Svc, find_group_id(group_name, remoteGroups), <<>>, now))

GetKidGroupNames(kid_name) ==
    Commit("get_kid_group_names", <<kid_name>>, "groups",
           Returned(Svc, get_kid_group_names(Svc, kid_name), <<>>, now))

MapsNext ==
    \/ \E ok \in BOOLEAN : GetGroups(ok, 0)
    \/ \E ok \in BOOLEAN : GetEvents(7, None, ok, 0)
    \/ GetEvent("E1", TRUE, 0)
    \/ \E ok \in BOOLEAN : ChangeResponse("E1", "M1", TRUE, "", ok)
    \/ \E ok \in BOOLEAN : ResolveFamilyMembers(ok, 0)
    \/ \E ok \in BOOLEAN : GetGroupMap(ok, 0)
    \/ \E ok \in BOOLEAN : FindMemberId(<<"A">>, ok, 0)
    \/ \E group_name \in ToolGroupNames : FindGroupIdCall(group_name)
    \/ GetKidGroupNames(<<"A">>)
    \/ \E okG \in BOOLEAN, okE \in BOOLEAN :
          GetUpcomingEvents(7, <<>>, <<"a">>, Envs(okG, okE, TRUE))
    \/ \E okG \in BOOLEAN :
          RespondToEvent("E1", <<"a">>, TRUE, "", Envs(okG, TRUE, TRUE))
    \/ Close
    \/ ClearCache
    \/ Tick(GROUPS_TTL - 1)

SpecMaps == MapsInit /\ [][MapsNext]_vars

\* the operations that resolve the family on demand
Resolvers ==
    {"resolve_family_members", "find_member_id", "get_upcoming_events",
     "get_attendance", "respond_to_event", "search_events", "tool_call"}

\* the operations that never touch either map
MapBystanders ==
    {"get_groups", "get_events", "get_event", "change_response",
     "find_group_id", "get_kid_group_names", "close"}

\* C24: the Family Resolution Map goes from unbuilt to built only in a
\* resolve_family_members call that succeeded, made directly or by
\* find_member_id or a tool handler, and the Group Name Index only in a
\* successful get_group_map call; a built map changes only by becoming
\* unbuilt, and only in clear_cache; get_groups, get_events, get_event,
\* change_response, find_group_id, get_kid_group_names, close and the
\* passage of time leave both maps as they are.
C24_TwoStateMaps ==
    [][ /\ (IsNone(family_members) /\ ~IsNone(family_members'))
           => /\ last'.op \in Resolvers
              /\ last'.op \in {"resolve_family_members", "find_member_id"}
                    => ~last'.raised
        /\ (IsNone(group_map) /\ ~IsNone(group_map'))
           => last'.op = "get_group_map" /\ ~last'.raised
        /\ (~IsNone(family_members) /\ family_members' # family_members)
           => last'.op = "clear_cache" /\ IsNone(family_members')
        /\ (~IsNone(group_map) /\ group_map' # group_map)
           => last'.op = "clear_cache" /\ IsNone(group_map')
        /\ (IsCall /\ last'.op = "clear_cache")
           => IsNone(family_members') /\ IsNone(group_map')
        /\ ((IsCall /\ last'.op \in MapBystanders) \/ ~IsCall)
           => UNCHANGED <<family_members, group_map>> ]_vars

\* with both maps built, the Groups entry expired and get_groups fetched
\* the list again
C24_Witness ==
    /\ last.op = "get_groups"
    /\ last.remote # <<>>
    /\ ~last.raised
    /\ ~IsNone(last.pre)
    /\ ~IsNone(family_members)
    /\ ~IsNone(group_map)

-----------------------------------------------------------------------------
(* Resolution over Group lists that differ in role tags                    *)

\* the role tags of conftest.MOCK_GROUPS, and no tag
RoleTags == {{"member"}, {"admin"}, {}}

TaggedMember(id, first, roles) ==
    [id |-> id, firstName |-> Some(first), roles |-> roles]

\* group "Ab" with members M1 and M2 of any first name and role tag, and
\* group "bA" with member M3 of any role tag
RoleGroupLists ==
    { << Group("G1", <<"A", "b">>,
               << TaggedMember("M1", f1, r1), TaggedMember("M2", f2, r2) >>),
         Group("G2", <<"b", "A">>, << TaggedMember("M3", <<"a">>, r3) >>) >> :
        f1 \in {<<"A">>, <<"b">>}, f2 \in {<<"a">>, <<"b">>},
        r1 \in RoleTags, r2 \in RoleTags, r3 \in {{"member"}, {"admin"}} }

RoleKidConfigs ==
    { << Kid(<<"a">>, << <<"a", "b">> >>) >>,
      << Kid(<<"a">>, << <<"b", "a">> >>), Kid(<<"b">>, << <<"a", "b">> >>) >> }

RolesInit == FacadeInit(RoleKidConfigs, RoleGroupLists)

RolesNext ==
    \/ \E ok \in BOOLEAN : ResolveFamilyMembers(ok, 0)
    \/ ClearCache

SpecRoles == RolesInit /\ [][RolesNext]_vars

\* the same member but for the role tags
SameMemberButRoles(m1, m2) ==
    m1.id = m2.id /\ m1.firstName = m2.firstName

\* the same Group list but for the role tags of the members
SameButRoles(gl1, gl2) ==
    /\ Len(gl1) = Len(gl2)
    /\ \A j \in 1..Len(gl1) :
          /\ gl1[j].id = gl2[j].id
          /\ gl1[j].name = gl2[j].name
          /\ Len(members_of(gl1[j])) = Len(members_of(gl2[j]))
          /\ \A i \in 1..Len(members_of(gl1[j])) :
                SameMemberButRoles(members_of(gl1[j])[i], members_of(gl2[j])[i])

\* C25: the Family Resolution Map that resolve_family_members built from a
\* Group list is the map it builds, with the same Configured Family
\* Members, from every Group list that differs from it only in the role
\* tags of the Members.
C25_RoleIrrelevant ==
    (IsResolve(last) /\ ~last.raised /\ ~IsNone(family_members)
       /\ "groups" \in DOMAIN cache)
    => \A other \in RoleGroupLists :
          SameButRoles(other, cache["groups"].data)
          => build_family(kids, other) = Val(family_members)

\* the map holds a Member tagged admin whose first name is the kid's, while
\* the group has a later Member of that first name tagged member
C25_Witness ==
    /\ IsResolve(last)
    /\ ~last.raised
    /\ ~IsNone(family_members)
    /\ "groups" \in DOMAIN cache
    /\ LET ms == members_of(cache["groups"].data[1])
       IN  /\ ms[1].roles = {"admin"}
           /\ ms[2].roles = {"member"}
           /\ first_name_equals(ms[1], <<"a">>)
           /\ first_name_equals(ms[2], <<"a">>)
           /\ DictHas(Val(family_members), ms[1].id)
           /\ ~DictHas(Val(family_members), ms[2].id)

-----------------------------------------------------------------------------
(* The bearer-token gate: main.py, BearerAuthMiddleware.dispatch           *)

\* "Bearer "
BearerPrefix == <<"B", "e", "a", "r", "e", "r", " ">>

\* the characters of tokens: two ASCII letters and one letter outside ASCII
TokenChars == {"s", "x", "é"}

IsAscii(c) == c # "é"

\* auth.startswith(prefix)
startswith(str, prefix) ==
    Len(str) >= Len(prefix) /\ SubSeq(str, 1, Len(prefix)) = prefix

\* hmac.compare_digest on two str: it raises TypeError when either holds a
\* character outside ASCII, and otherwise tells whether they are equal
compare_digest(a, b) ==
    IF \E i \in 1..Len(a) : ~IsAscii(a[i]) THEN [raised |-> TRUE, eq |-> FALSE]
    ELSE IF \E i \in 1..Len(b) : ~IsAscii(b[i])
    THEN [raised |-> TRUE, eq |-> FALSE]
    ELSE [raised |-> FALSE, eq |-> a = b]

\* the request goes on to its handler
call_next == [reached |-> TRUE, raised |-> FALSE, status |-> 0, body |-> ""]

\* PlainTextResponse("unauthorized", status_code=401)
unauthorized ==
    [reached |-> FALSE, raised |-> FALSE, status |-> 401,
     body |-> "unauthorized"]

\* dispatch ends with an exception
dispatch_raised ==
    [reached |-> FALSE, raised |-> TRUE, status |-> 0, body |-> ""]

\* lines 34-43; authorization is the header, None when the request has none
dispatch(path, auth_token, authorization) ==
    IF path = "/health" THEN call_next
    ELSE IF auth_token = <<>> THEN call_next
    ELSE LET auth == IF IsNone(authorization) THEN <<>> ELSE Val(authorization)
         IN  IF ~startswith(auth, BearerPrefix) THEN unauthorized
             ELSE LET c == compare_digest(
                               SubSeq(auth, Len(BearerPrefix) + 1, Len(auth)),
                               auth_token)
                  IN  IF c.raised THEN dispatch_raised
                      ELSE IF ~c.eq THEN unauthorized
                      ELSE call_next

\* MCP_AUTH_TOKEN: unset or empty, or a token
AuthTokens == {<<>>, <<"s">>, <<"s", "x">>}

RequestPaths == {"/health", "/sse", "/messages/"}

\* what follows the scheme in an Authorization header
Credentials ==
    {<<>>, <<"s">>, <<"x">>, <<"s", "x">>, <<"s", "x", "s">>, <<"s", " ">>,
     <<"é">>, <<"s", "é">>}

\* Authorization headers: none, empty, Bearer, bearer, Basic, a bare token
AuthorizationHeaders ==
    {None} \cup {Some(c) : c \in Credentials}
           \cup {Some(BearerPrefix \o c) : c \in Credentials}
           \cup {Some(<<"b", "e", "a", "r", "e", "r", " ">> \o c) :
                    c \in Credentials}
           \cup {Some(<<"B", "a", "s", "i", "c", " ">> \o c) :
                    c \in Credentials}
           \cup {Some(<<"B", "e", "a", "r", "e", "r">> \o c) :
                    c \in Credentials}

AuthInit ==
    /\ IdleFacade
    /\ arg \in [token : AuthTokens, path : RequestPaths,
                authorization : AuthorizationHeaders]
    /\ res = NoResult

Dispatch ==
    /\ res' = [op |-> "dispatch",
               val |-> dispatch(arg.path, arg.token, arg.authorization)]
    /\ UNCHANGED <<now, ticks, kids, cache, family_members, group_map,
                   remoteGroups, remoteEvents, last, tasks, arg, client>>

AuthNext == Dispatch

SpecAuth == AuthInit /\ [][AuthNext]_vars

\* the header is "Bearer " followed by the configured token
ExactBearer == arg.authorization = Some(BearerPrefix \o arg.token)

\* C26: a request to /health reaches its handler; with an empty configured
\* token every request does; with a non-empty one a request to another path
\* reaches its handler only if its Authorization header is "Bearer "
\* followed by the token, and every other request is answered with 401
\* "unauthorized".
C26_BearerGate ==
    res.op = "dispatch"
    => /\ arg.path = "/health" => res.val = call_next
       /\ arg.token = <<>> => res.val = call_next
       /\ (arg.path # "/health" /\ arg.token # <<>>)
          => /\ res.val.reached => ExactBearer
             /\ ~ExactBearer => res.val = unauthorized

-----------------------------------------------------------------------------
(* clear_cache while calls are suspended on the Remote Source              *)

\* resolve_family_members resuming only if no clear_cache ran meanwhile
resume_resolve_unless_cleared(svc, task, groups, t) ==
    IF task.cleared THEN svc
    ELSE [svc EXCEPT !.cache = set_cached(@, "groups", groups, t),
                     !.family_members = Some(build_family(svc.kids, groups))]

\* lines 49-50 and 65-80: resolve_family_members resumes with the Group
\* list the Remote Source answered with, get_groups stores it, and the map
\* built from it is stored
resume_resolve(svc, task, groups, t) ==
    [svc EXCEPT !.cache = set_cached(@, "groups", groups, t),
                !.family_members = Some(build_family(svc.kids, groups))]

\* lines 61-64 and 45-48: resolve_family_members up to its first suspension;
\* it ends at once when the map is built or the Groups entry is valid
BeginResolve(i) ==
    /\ tasks[i].pc = "idle"
    /\ LET out == resolve_family_members(Svc, now, Env(TRUE, 0)) IN
       IF out.remote = <<>>
       THEN /\ family_members' = out.svc.family_members
            /\ tasks' = [tasks EXCEPT ![i] =
                  [IdleTask EXCEPT !.pc = "done",
                                   !.op = "resolve_family_members",
                                   !.ret = out.ret]]
       ELSE /\ family_members' = family_members
            /\ tasks' = [tasks EXCEPT ![i] =
                  [IdleTask EXCEPT !.pc = "awaiting",
                                   !.op = "resolve_family_members",
                                   !.invoked = TRUE]]
    /\ UNCHANGED <<now, ticks, kids, cache, group_map, remoteGroups,
                   remoteEvents, last, arg, res, client>>

\* the Remote Source answers the Group-list fetch of a suspended
\* resolve_family_members, or raises
CompleteResolve(i, ok) ==
    /\ tasks[i].pc = "awaiting"
    /\ tasks[i].op = "resolve_family_members"
    /\ IF ok
       THEN LET svc == resume_resolve(Svc, tasks[i], remoteGroups, now) IN
            /\ cache' = svc.cache
            /\ family_members' = svc.family_members
            /\ tasks' = [tasks EXCEPT ![i].pc = "done",
                                      ![i].ret = svc.family_members,
                                      ![i].stored = StoresSoFar + 1]
       ELSE /\ UNCHANGED <<cache, family_members>>
            /\ tasks' = [tasks EXCEPT ![i].pc = "done", ![i].raised = TRUE]
    /\ UNCHANGED <<now, ticks, kids, group_map, remoteGroups, remoteEvents,
                   last, arg, res, client>>

\* the Remote Source answers a suspended get_groups or get_events
CompleteRead(i, ok) ==
    /\ tasks[i].op \in {"get_groups", "get_events"}
    /\ Complete(i, ok)

\* clear_cache, lines 39-42, called while other callers may be suspended:
\* it has no access to them; each suspended call is marked as having been
\* in flight during a clear
ClearCacheInFlight ==
    LET out == clear_cache(Svc, now) IN
    /\ kids' = out.svc.kids
    /\ cache' = out.svc.cache
    /\ family_members' = out.svc.family_members
    /\ group_map' = out.svc.group_map
    /\ last' = [op |-> "clear_cache", args |-> <<>>, pre |-> EntryAt("groups"),
                ret |-> out.ret, remote |-> out.remote, raised |-> out.raised,
                t0 |-> now, t |-> out.t]
    /\ tasks' = [i \in TaskIds |->
                   IF tasks[i].pc = "awaiting"
                   THEN [tasks[i] EXCEPT !.cleared = TRUE] ELSE tasks[i]]
    /\ UNCHANGED <<now, ticks, remoteGroups, remoteEvents, arg, res, client>>

InFlightNext ==
    \/ \E i \in TaskIds : Begin(i, "get_groups", <<>>)
    \/ \E i \in TaskIds : Begin(i, "get_events", <<7, None>>)
    \/ \E i \in TaskIds : BeginResolve(i)
    \/ \E i \in TaskIds, ok \in BOOLEAN : CompleteRead(i, ok)
    \/ \E i \in TaskIds, ok \in BOOLEAN : CompleteResolve(i, ok)
    \/ ClearCacheInFlight
    \/ \E groups \in {GroupsV1, GroupsV2} : RemoteChange(groups)

SpecInFlight == AsyncInit /\ [][InFlightNext]_vars

\* C27 as stated: a call that was suspended on a remote fetch when
\* clear_cache ran never stores its result into the Cache or the Family
\* Resolution Map afterwards.
C27_ClearInvalidatesInFlight ==
    \A i \in TaskIds : tasks[i].cleared => tasks[i].stored = 0

\* C27, amended: clear_cache empties the Cache and unbuilds both maps and
\* leaves the suspended calls suspended; a get_groups, get_events or
\* resolve_family_members call that was suspended during a clear and is
\* then answered stores its answer under its key, stamped with the time of
\* the answer, and resolve_family_members stores the map built from it.
C27_InFlightStoresAfterClear ==
    [][ /\ (IsCall /\ last'.op = "clear_cache")
           => /\ cache' = EmptyCache
              /\ IsNone(family_members') /\ IsNone(group_map')
              /\ \A i \in TaskIds : tasks'[i].pc = tasks[i].pc
        /\ \A i \in TaskIds :
              (/\ tasks[i].pc = "awaiting" /\ tasks[i].cleared
               /\ tasks'[i].pc = "done" /\ ~tasks'[i].raised)
              => IF tasks[i].op = "resolve_family_members"
                 THEN /\ "groups" \in DOMAIN cache'
                      /\ cache'["groups"] = [data |-> remoteGroups, ts |-> now]
                      /\ family_members' =
                            Some(build_family(kids, remoteGroups))
                      /\ tasks'[i].ret = family_members'
                 ELSE /\ read_key(tasks[i].op, tasks[i].args) \in DOMAIN cache'
                      /\ cache'[read_key(tasks[i].op, tasks[i].args)] =
                            [data |-> Val(tasks'[i].ret), ts |-> now] ]_vars

\* clear_cache was the last facade call to return, and the Cache and the
\* Family Resolution Map hold what a resolve_family_members call stored
\* that was suspended when it ran
C27_Witness ==
    /\ last.op = "clear_cache"
    /\ \E i \in TaskIds :
          /\ tasks[i].op = "resolve_family_members"
          /\ tasks[i].pc = "done"
          /\ tasks[i].cleared
          /\ tasks[i].stored > 0
          /\ "groups" \in DOMAIN cache
          /\ family_members = tasks[i].ret
          /\ ~IsNone(family_members)

-----------------------------------------------------------------------------
(* Unknown kids                                                            *)

\* C28: a get_upcoming_events or get_attendance call for a kid name
\* returns the unknown-kid result exactly when the name equals, up to
\* case, the name of no Configured Family Member; a configured kid with an
\* empty or missing group list is known.
C28_UnknownKidExactly ==
    (IsKidAggregation(last) /\ ~last.raised)
    => (Val(last.ret).kind = "unknown_kid" <=> UnknownKid(KidNameOf(last)))

-----------------------------------------------------------------------------
(* Failed fetches                                                          *)

\* C29: a get_groups or get_events call whose Remote Source call fails
\* raises after exactly one remote invocation and returns nothing, and the
\* Cache, the Family Resolution Map and the Group Name Index are as before
\* the call; an expired entry stored under its key is still stored.
C29_FailureLeavesState ==
    [][ (IsCall /\ IsRead(last') /\ last'.raised)
        => /\ Len(last'.remote) = 1
           /\ last'.remote[1].op = last'.op
           /\ IsNone(last'.ret)
           /\ UNCHANGED <<cache, family_members, group_map>>
           /\ ~IsNone(last'.pre)
                 => /\ KeyOf(last') \in DOMAIN cache'
                    /\ cache'[KeyOf(last')] = Val(last'.pre) ]_vars

\* both maps are built and a get_events call failed whose entry had
\* expired; the expired entry is in storage
C29_Witness ==
    /\ last.op = "get_events"
    /\ last.raised
    /\ ~IsNone(last.pre)
    /\ last.t0 - Val(last.pre).ts >= EVENTS_TTL
    /\ KeyOf(last) \in DOMAIN cache
    /\ cache[KeyOf(last)] = Val(last.pre)
    /\ ~IsNone(family_members)
    /\ ~IsNone(group_map)

-----------------------------------------------------------------------------
(* Lazy expiry                                                             *)

\* the entry stored under the key is expired now for the read c
ExpiredFor(c, k) == now - cache[k].ts >= TtlOf(c)

\* C30: an entry leaves storage only in clear_cache, and changes only by
\* being overwritten by the store of a read of its own key that fetched;
\* a read of an expired entry is answered as if the entry were absent, by
\* a fetch, and when that fetch fails the entry is still stored, value and
\* timestamp, as are all other entries; the passage of time changes no
\* entry.
C30_LazyExpiry ==
    [][ /\ \A k \in DOMAIN cache :
              /\ k \notin DOMAIN cache'
                    => IsCall /\ last'.op = "clear_cache"
              /\ (k \in DOMAIN cache' /\ cache'[k] # cache[k])
                    => /\ IsCall /\ IsRead(last') /\ KeyOf(last') = k
                       /\ ~last'.raised
                       /\ last'.remote # <<>>
                       /\ cache'[k] = [data |-> Val(last'.ret), ts |-> last'.t]
              /\ (IsCall /\ IsRead(last') /\ KeyOf(last') = k
                    /\ ExpiredFor(last', k))
                    => /\ last'.remote # <<>>
                       /\ last'.raised => cache' = cache
        /\ ~IsCall => cache' = cache ]_vars

\* the Groups entry expired, a get_groups call read it, was answered as on
\* a miss and its fetch failed; the expired entry is still stored, next to
\* an events entry
C30_Witness ==
    /\ last.op = "get_groups"
    /\ last.raised
    /\ last.remote # <<>>
    /\ ~IsNone(last.pre)
    /\ last.t0 - Val(last.pre).ts >= GROUPS_TTL
    /\ "groups" \in DOMAIN cache
    /\ cache["groups"] = Val(last.pre)
    /\ \E k \in DOMAIN cache : k # "groups"

-----------------------------------------------------------------------------
(* The two aggregations for a kid                                          *)

\* the events a kid-scoped handler result is about, as a set
EventsOf(out) ==
    LET r == Val(out.ret) IN
    IF "aggregated" \in DOMAIN r
    THEN {r.aggregated[i] : i \in 1..Len(r.aggregated)}
    ELSE IF r.kind = "events" THEN {r.events[i] : i \in 1..Len(r.events)}
    ELSE {}

\* the attendance call a and the upcoming-events call u end alike: both
\* fail or both complete, both with the unknown-kid result or both about
\* the same set of events
EndAlike(a, u) ==
    /\ a.raised = u.raised
    /\ ~a.raised =>
          /\ Val(a.ret).kind = "unknown_kid" <=> Val(u.ret).kind = "unknown_kid"
          /\ EventsOf(a) = EventsOf(u)

\* C31: a get_attendance call for a kid ends as get_upcoming_events does
\* for the same kid name, day count, facade state and Remote Source
\* answers: it fails only if that one fails, and it aggregates the same
\* deduplicated set of events, whether or not the fetched events have an
\* id and whether or not ids repeat.
C31_AggregationsAgree ==
    [][ (IsCall /\ last'.op = "get_attendance" /\ last'.args[1] # <<>>)
        => \A okG \in BOOLEAN, okE \in BOOLEAN :
              LET envs == Envs(okG, okE, TRUE)
                  a == handle_get_attendance(Svc, last'.args[1],
                                             last'.args[2], now, envs)
                  u == handle_get_upcoming_events(Svc, last'.args[2], <<>>,
                                                  last'.args[1], now, envs)
              IN  (/\ a.raised = last'.raised
                   /\ a.remote = last'.remote
                   /\ a.ret = last'.ret)
                  => EndAlike(a, u) ]_vars

-----------------------------------------------------------------------------
(* Aggregation against resolution                                          *)

\* one kid "a" configured with one group name, or with one and "ab"
OneKidConfigs ==
    {<< Kid(<<"a">>, <<n>>) >> : n \in Names}
       \cup {<< Kid(<<"a">>, <<n, <<"a", "b">> >>) >> : n \in Names}

\* one group of any name, or one followed by the group "bA"
NamedGroupLists ==
    {GroupsNamed(<<n>>) : n \in Names}
       \cup {GroupsNamed(<<n, <<"b", "A">> >>) : n \in Names}

ConsistentInit == FacadeInit(OneKidConfigs, NamedGroupLists)

ConsistentNext ==
    \/ GetUpcomingEvents(7, <<>>, <<"a">>, Envs(TRUE, TRUE, TRUE))
    \/ ResolveFamilyMembers(TRUE, 0)

SpecConsistent == ConsistentInit /\ [][ConsistentNext]_vars

\* the groups of the Group list that have the id
GroupsWithId(gid) ==
    {j \in 1..Len(remoteGroups) : remoteGroups[j].id = gid}

\* C32: every Group whose id the aggregation for a kid obtained from
\* find_group_id for one of the kid's configured group names is a Group
\* that fuzzy_match_group accepts against the kid's configured group-name
\* list, so that resolve_family_members scans it for the kid.
C32_AggregatedGroupsAreScanned ==
    AggregatedForKid(last)
    => LET scanned == Val(last.ret).scanned IN
       \A i \in 1..Len(scanned) :
          Truthy(scanned[i].gid)
          => \A j \in GroupsWithId(Val(scanned[i].gid)) :
                fuzzy_match_group(remoteGroups[j].name,
                                  kid_groups_of(kids[1]))

\* the aggregation obtained the id of a group whose name is shorter than
\* the configured name that holds it, and showed its events
C32_Witness ==
    /\ AggregatedForKid(last)
    /\ Val(last.ret).kind = "events"
    /\ \E i \in 1..Len(Val(last.ret).scanned) :
          LET sc == Val(last.ret).scanned[i] IN
          /\ Truthy(sc.gid)
          /\ \E j \in GroupsWithId(Val(sc.gid)) :
                /\ Len(remoteGroups[j].name) < Len(sc.name)
                /\ Len(remoteGroups[j].name) > 0

====
